---------------------------- MODULE Spec2Model ----------------------------
(***************************************************************************)
(* Barcode to Excel scanner (antoleod/barcode).                            *)
(*                                                                         *)
(* Two revisions of the React component App live in the repository:        *)
(*   - src/src/App.jsx: continuous ZXing scanning (decodeFromVideoDevice), *)
(*     auto-commit of every detection through uniqueByRecent, Deep Scan    *)
(*     retry watchdog.  Modelled by SpecLive.                              *)
(*   - src/unnamed/part_000: requestAnimationFrame scan loop with a        *)
(*     stability gate, time-based phases and an OCR fallback that commits  *)
(*     through saveSerial.  Modelled by SpecScan.                          *)
(*                                                                         *)
(* Time is the value of Date.now() in milliseconds; the clock is taken to  *)
(* be non-decreasing.  Text is a sequence of one-character strings.        *)
(***************************************************************************)
EXTENDS Integers, Sequences, FiniteSets, TLC

VARIABLES
    now,          \* Date.now()
    rows,         \* React state rows (both revisions)
    \* ---- src/src/App.jsx
    autoCommit,   \* React state autoCommit
    cooldownMs,   \* React state cooldownMs
    liveCb,       \* decode callback installed by startCamera: its closure, or NoCb
    img,          \* decodeFromImage of App.jsx: the upload being decoded
    storage,      \* localStorage under LS_KEY, and what the save effect last saw
    pix,          \* the image buffer handed to an image function, then its result
    scanMode,     \* React state scanMode
    wd,           \* watchdogRef.current, the timer being the closure of its callback
    cams,         \* startCamera calls awaiting decodeFromVideoDevice
    retries,      \* pending setTimeout(startCamera) of the start-failure path
    startLog,     \* history: the startCamera calls since the last click on Iniciar
    halted,       \* history: Detener was clicked and Iniciar not since
    \* ---- src/unnamed/part_000
    scanState,    \* useRef scanState.current
    serialLocked, \* React state serialLocked
    scanning,     \* React state scanning
    scanPhase,    \* React state scanPhase
    starts,       \* startCamera calls awaiting getUserMedia / loadedmetadata
    loops,        \* pending requestAnimationFrame(scanLoop) callbacks (closures)
    ocrChains,    \* OCR promise chains in flight
    upl,          \* decodeFromImage of part_000: the upload being read
    ocrWorker,    \* workerRef, workerPromiseRef, the createWorker promises made
                  \* and the getOcrWorker calls (history)
    \* ---- observation of the last step (history, read by no action)
    lastEvent,    \* what the last step was
    tickInfo,     \* what the scanLoop run that led to this state did
    lastOcrStart, \* when the scan loop last started an OCR attempt (0: never)
    lastPhase     \* phase computed by the last decode tick of this session
                  \* since the last commit (NoPhase: none)

fileVars == <<img, upl, ocrWorker>>
pageVars == <<storage, pix>>
deepVars == <<scanMode, wd, cams, retries, startLog, halted>>
liveVars == <<autoCommit, cooldownMs, liveCb, fileVars, pageVars, deepVars>>
scanVars == <<scanState, serialLocked, scanning, scanPhase, starts, loops, ocrChains>>
obsVars  == <<lastEvent, tickInfo, lastOcrStart, lastPhase>>
vars     == <<now, rows, liveVars, scanVars, obsVars>>

\* ------------------------------------------------------------------ bounds
\* Date.now() at page load (any positive instant).
T0 == 1000
\* The live model runs until T0 + LiveSpan.
LiveSpan == 1400
MaxRows == 3
\* Rows of the serial log (scan model).
MaxSerialRows == 2

Null == "null"

\* ------------------------------------------------------------------ text
ABC123 == <<"A", "B", "C", "1", "2", "3">>
XYZ999 == <<"X", "Y", "Z", "9", "9", "9">>
\* One character short of the minimum length.
AB123  == <<"A", "B", "1", "2", "3">>
\* What the decoder or the manual input box can hand over.
RawTexts == {ABC123, <<" ">> \o XYZ999 \o <<" ">>, AB123}

IsSpace(c) == c \in {" ", "\t", "\n"}

RECURSIVE TrimStart(_)
TrimStart(s) ==
    IF s = <<>> THEN s
    ELSE IF IsSpace(Head(s)) THEN TrimStart(Tail(s)) ELSE s

RECURSIVE TrimEnd(_)
TrimEnd(s) ==
    IF s = <<>> THEN s
    ELSE IF IsSpace(s[Len(s)]) THEN TrimEnd(SubSeq(s, 1, Len(s) - 1)) ELSE s

\* String(txt ?? "").trim()
normalizeText(txt) == IF txt = Null THEN <<>> ELSE TrimEnd(TrimStart(txt))

MinBarcodeLen == 6

\* One character less is enough.
isLikelyBarcodeFive(value) == Len(normalizeText(value)) >= MinBarcodeLen - 1

isLikelyBarcode(value) == Len(normalizeText(value)) >= MinBarcodeLen

\* ------------------------------------------------------------------ live scanner (App.jsx)
DefaultCooldownMs == 1200

\* rows[0] of the JavaScript array is the first element of the sequence.
uniqueByRecent(rws, newValue, windowMs, dateNow) ==
    LET v == normalizeText(newValue) IN
    IF rws = <<>> THEN TRUE
    ELSE LET last == rws[1] IN
         IF normalizeText(last.barcode) # v THEN TRUE
         ELSE dateNow - last.ts > windowMs

\* ---- localStorage: loadRows, saveRows and the save effect
\* What localStorage.getItem(LS_KEY) can find: nothing, or a text, which is
\* empty, not JSON, or the JSON text of a value.
Missing == [kind |-> "missing"]
TextOf(doc) == [kind |-> "text", doc |-> doc]
EmptyText == TextOf([t |-> "empty"])
Garbage == TextOf([t |-> "garbage"])
JsonNull == TextOf([t |-> "null"])
JsonObject == TextOf([t |-> "object"])
JsonArray(items) == TextOf([t |-> "array", items |-> items])

\* The time of the row is written under the key ts.
JsonOfRowNoUnderscore(r) ==
    << <<"ts", r.ts>>, <<"barcode", r.barcode>>, <<"format", r.format>> >>

\* JSON.stringify of one row: the members of the object, in insertion order.
JsonOfRow(r) ==
    << <<"_ts", r.ts>>, <<"barcode", r.barcode>>, <<"format", r.format>> >>

\* The member key of a parsed object (absent: the default).
Member(obj, key, default) ==
    IF \E k \in 1..Len(obj) : obj[k][1] = key
    THEN LET k == CHOOSE k \in 1..Len(obj) : obj[k][1] = key IN obj[k][2]
    ELSE default

\* The object JSON.parse builds for one element; a row without _ts counts as
\* written at 0 (Number(last._ts || 0)).
RowOfJson(obj) ==
    [ts |-> Member(obj, "_ts", 0), barcode |-> Member(obj, "barcode", <<>>),
     format |-> Member(obj, "format", "")]

JsonStringify(rws) == JsonArray([k \in 1..Len(rws) |-> JsonOfRow(rws[k])])

loadRows(raw) ==
    IF raw.kind = "missing" THEN <<>>
    ELSE IF raw.doc.t = "empty" THEN <<>>
    ELSE IF raw.doc.t = "garbage" THEN <<>>
    ELSE IF raw.doc.t # "array" THEN <<>>
    ELSE [k \in 1..Len(raw.doc.items) |-> RowOfJson(raw.doc.items[k])]

\* saveRows: setItem stores the text, or throws and the exception is ignored.
SaveRowsOutcomes(raw, rws) == {JsonStringify(rws), raw}

\* The rows the save effect last ran on (NotSeen: it has not run since the
\* last mount or since setRows was given a new array).
NotSeen == [set |-> FALSE]
Seen(rws) == [set |-> TRUE, rows |-> rws]

\* The effect of [rows] is due: rows changed since it last ran.
EffectDue == IF storage.seen.set THEN storage.seen.rows # rows ELSE TRUE

NoPix == [op |-> "none"]

PageInit ==
    /\ storage = [raw |-> Missing, seen |-> NotSeen, wrote |-> FALSE]
    /\ pix = NoPix

NoCb == [installed |-> FALSE]

LiveDeltas == {500, 700}

LiveAdvance ==
    /\ \E d \in LiveDeltas :
          /\ now + d <= T0 + LiveSpan
          /\ now' = now + d
    /\ lastEvent' = <<"advance", <<>>>>
    /\ UNCHANGED <<rows, liveVars, scanVars, tickInfo, lastOcrStart, lastPhase>>

\* startCamera up to the installation of the decode callback; the callback
\* closes over the autoCommit and cooldownMs of the render that started it.
LiveStartCamera ==
    /\ liveCb' = [installed |-> TRUE, autoCommit |-> autoCommit, cooldownMs |-> cooldownMs]
    /\ lastEvent' = <<"startCamera", <<>>>>
    /\ UNCHANGED <<now, rows, autoCommit, cooldownMs, fileVars, pageVars, deepVars, scanVars, tickInfo, lastOcrStart, lastPhase>>

LiveStopCamera ==
    /\ liveCb.installed
    /\ liveCb' = NoCb
    /\ lastEvent' = <<"stopCamera", <<>>>>
    /\ UNCHANGED <<now, rows, autoCommit, cooldownMs, fileVars, pageVars, deepVars, scanVars, tickInfo, lastOcrStart, lastPhase>>

SetAutoCommit ==
    /\ autoCommit' = ~autoCommit
    /\ lastEvent' = <<"setAutoCommit", <<>>>>
    /\ UNCHANGED <<now, rows, cooldownMs, liveCb, fileVars, pageVars, deepVars, scanVars, tickInfo, lastOcrStart, lastPhase>>

\* The new row is put in front of the log.
DecodeCallbackRowsPrepend(prev, raw, cb, dateNow) ==
    LET text == normalizeText(raw) IN
    IF cb.autoCommit /\ isLikelyBarcode(text)
    THEN IF ~uniqueByRecent(prev, text, cb.cooldownMs, dateNow) THEN prev
         ELSE <<[ts |-> dateNow, barcode |-> text, format |-> "CODE_128"]>> \o prev
    ELSE prev

\* The decode callback with a result: the functional setRows update.
DecodeCallbackRows(prev, raw, cb, dateNow) ==
    LET text == normalizeText(raw) IN
    IF cb.autoCommit /\ isLikelyBarcode(text)
    THEN IF ~uniqueByRecent(prev, text, cb.cooldownMs, dateNow) THEN prev
         ELSE Append(prev, [ts |-> dateNow, barcode |-> text, format |-> "CODE_128"])
    ELSE prev

\* The decode callback is called with a result whose text is one of texts.
LiveDetectOf(texts) ==
    /\ liveCb.installed
    /\ \E raw \in texts :
          /\ rows' = DecodeCallbackRows(rows, raw, liveCb, now)
          /\ Len(rows') <= MaxRows
          /\ lastEvent' = <<"detect", raw>>
    /\ UNCHANGED <<now, liveVars, scanVars, tickInfo, lastOcrStart, lastPhase>>

LiveDetect == LiveDetectOf(RawTexts)

LiveCommitManual ==
    /\ \E manual \in RawTexts :
          LET v == normalizeText(manual) IN
          /\ rows' = IF ~isLikelyBarcode(v) THEN rows
                     ELSE Append(rows, [ts |-> now, barcode |-> v, format |-> "MANUAL"])
          /\ Len(rows') <= MaxRows
          /\ lastEvent' = <<"commitManual", manual>>
    /\ UNCHANGED <<now, liveVars, scanVars, tickInfo, lastOcrStart, lastPhase>>

\* clearAll (confirmed): setRows([]) and saveRows([]).
LiveClearAll ==
    /\ rows # <<>>
    /\ rows' = <<>>
    /\ \E raw \in SaveRowsOutcomes(storage.raw, <<>>) :
          storage' = [raw |-> raw, seen |-> NotSeen, wrote |-> (raw = JsonStringify(<<>>))]
    /\ lastEvent' = <<"clearAll", <<>>>>
    /\ UNCHANGED <<now, autoCommit, cooldownMs, liveCb, fileVars, pix, deepVars, scanVars,
                   tickInfo, lastOcrStart, lastPhase>>

\* useEffect(() => saveRows(rows), [rows]) runs after a render with new rows.
SaveEffect ==
    /\ EffectDue
    /\ \E raw \in SaveRowsOutcomes(storage.raw, rows) :
          storage' = [raw |-> raw, seen |-> Seen(rows), wrote |-> (raw = JsonStringify(rows))]
    /\ lastEvent' = <<"saveEffect", <<>>>>
    /\ UNCHANGED <<now, rows, autoCommit, cooldownMs, liveCb, fileVars, pix, deepVars, scanVars,
                   tickInfo, lastOcrStart, lastPhase>>

\* The page is reloaded: App is constructed again, rows from loadRows().
Reload ==
    /\ rows' = loadRows(storage.raw)
    /\ storage' = [storage EXCEPT !.seen = NotSeen, !.wrote = FALSE]
    /\ autoCommit' = TRUE
    /\ cooldownMs' = DefaultCooldownMs
    /\ liveCb' = NoCb
    /\ img' = [pc |-> "idle"]
    /\ lastEvent' = <<"reload", <<>>>>
    /\ UNCHANGED <<now, upl, ocrWorker, pix, deepVars, scanVars, tickInfo, lastOcrStart, lastPhase>>

\* ------------------------------------------------------------------ image functions (App.jsx)
\* A grayscale buffer is [w, h, den, data]: sample p (row-major, from 1) has
\* the value data[p] / den.  The arithmetic of the source is carried out
\* exactly on these fractions; the rounding of a sample to 32-bit floating
\* point when it is stored in a Float32Array is left out.
\* ---- bounds of the image models
MaxW == 3
MaxH == 2
MaxRadius == 2

Abs(x) == IF x < 0 THEN 0 - x ELSE x
Max2(a, b) == IF a > b THEN a ELSE b
Min2(a, b) == IF a < b THEN a ELSE b

\* clamp(value, min, max)
clamp(value, min, max) == Max2(min, Min2(max, value))

Gray(w, h, den, data) == [w |-> w, h |-> h, den |-> den, data |-> data]

\* Sample (x, y) of a buffer, x and y from 0.
At(data, w, x, y) == data[y * w + x + 1]

RECURSIVE SumOver(_, _, _)
\* The sum of f[k] for k in lo..hi.
SumOver(f, lo, hi) ==
    IF lo > hi THEN 0
    ELSE IF lo = hi THEN f[lo]
    ELSE LET mid == (lo + hi) \div 2
         IN  SumOver(f, lo, mid) + SumOver(f, mid + 1, hi)

\* The sample entering the window is taken one place too early.
RECURSIVE RunningSumsLate(_, _, _, _, _)
RunningSumsLate(line, n, radius, i, sum) ==
    IF i >= n THEN <<>>
    ELSE LET a == clamp(i - radius, 0, n - 1)
             b == clamp(i + radius, 0, n - 1)
         IN  <<sum>> \o RunningSumsLate(line, n, radius, i + 1, sum + line[b + 1] - line[a + 1])

\* The inner loop of a pass of boxBlur over one line of n samples: the sum
\* written at i, then the sample leaving and the one entering the window.
RECURSIVE RunningSums(_, _, _, _, _)
RunningSums(line, n, radius, i, sum) ==
    IF i >= n THEN <<>>
    ELSE LET a == clamp(i - radius, 0, n - 1)
             b == clamp(i + radius + 1, 0, n - 1)
         IN  <<sum>> \o RunningSums(line, n, radius, i + 1, sum + line[b + 1] - line[a + 1])

\* One line of a pass: the first window, then the running sums.
BlurLine(line, n, radius) ==
    LET first == SumOver([k \in (0 - radius)..radius |-> line[clamp(k, 0, n - 1) + 1]],
                         0 - radius, radius)
    IN  RunningSums(line, n, radius, 0, first)

\* The horizontal pass: tmp, each sum being divided by win.
BlurRows(buf, radius) ==
    LET win    == radius * 2 + 1
        row(y) == [x \in 1..buf.w |-> At(buf.data, buf.w, x - 1, y)]
    IN  Gray(buf.w, buf.h, buf.den * win,
             [p \in 1..(buf.w * buf.h) |->
                 BlurLine(row((p - 1) \div buf.w), buf.w, radius)[((p - 1) % buf.w) + 1]])

\* The vertical pass over tmp: out.
BlurColumns(tmp, radius) ==
    LET win    == radius * 2 + 1
        col(x) == [y \in 1..tmp.h |-> At(tmp.data, tmp.w, x, y - 1)]
    IN  Gray(tmp.w, tmp.h, tmp.den * win,
             [p \in 1..(tmp.w * tmp.h) |->
                 BlurLine(col((p - 1) % tmp.w), tmp.h, radius)[((p - 1) \div tmp.w) + 1]])

boxBlur(buf, radius) ==
    IF radius <= 0 THEN buf ELSE BlurColumns(BlurRows(buf, radius), radius)

\* What a step of an image function leaves unchanged.
PixFrame ==
    UNCHANGED <<now, rows, autoCommit, cooldownMs, liveCb, fileVars, storage, deepVars,
                scanVars, obsVars>>

\* boxBlur is applied to the buffer, with any radius.
ApplyBoxBlur ==
    /\ pix.op = "gray"
    /\ \E radius \in (0 - 1)..MaxRadius :
          pix' = [op |-> "boxBlur", src |-> pix.buf, radius |-> radius,
                  tmp |-> IF radius <= 0 THEN pix.buf ELSE BlurRows(pix.buf, radius),
                  out |-> boxBlur(pix.buf, radius)]
    /\ PixFrame

\* The 3x3 neighbourhood of (x, y) with clamped coordinates, row by row.
Neighbours(buf, x, y) ==
    [k \in 1..9 |->
        At(buf.data, buf.w, clamp(x + ((k - 1) % 3) - 1, 0, buf.w - 1),
                            clamp(y + ((k - 1) \div 3) - 1, 0, buf.h - 1))]

\* values.sort(); values[4]: the fifth smallest of the nine values.
Median9(values) ==
    CHOOSE v \in {values[k] : k \in 1..9} :
        /\ Cardinality({k \in 1..9 : values[k] < v}) <= 4
        /\ Cardinality({k \in 1..9 : values[k] <= v}) >= 5

median3x3(buf) ==
    Gray(buf.w, buf.h, buf.den,
         [p \in 1..(buf.w * buf.h) |->
             Median9(Neighbours(buf, (p - 1) % buf.w, (p - 1) \div buf.w))])

\* The (radius, amount) pairs preprocessForScanner passes to unsharp; the
\* amount is in tenths.
UnsharpArgs == {<<2, 18>>, <<1, 12>>, <<1, 16>>}

\* out[i] = clamp(gray[i] + (gray[i] - blur[i]) * amount), over the
\* denominator 10 * blur.den.
unsharp(buf, radius, amount10) ==
    LET blur == boxBlur(buf, radius)
        k    == blur.den \div buf.den
    IN  Gray(buf.w, buf.h, 10 * blur.den,
             [p \in 1..Len(buf.data) |->
                 clamp(10 * k * buf.data[p] + (k * buf.data[p] - blur.data[p]) * amount10,
                       0, 255 * 10 * blur.den)])

\* The output starts as zeros; every interior sample becomes Math.abs(gx).
sobelX(buf) ==
    Gray(buf.w, buf.h, buf.den,
         [p \in 1..(buf.w * buf.h) |->
             LET x == (p - 1) % buf.w
                 y == (p - 1) \div buf.w
             IN  IF x >= 1 /\ x < buf.w - 1 /\ y >= 1 /\ y < buf.h - 1
                 THEN Abs((0 - At(buf.data, buf.w, x - 1, y - 1))
                          - 2 * At(buf.data, buf.w, x - 1, y)
                          - At(buf.data, buf.w, x - 1, y + 1)
                          + At(buf.data, buf.w, x + 1, y - 1)
                          + 2 * At(buf.data, buf.w, x + 1, y)
                          + At(buf.data, buf.w, x + 1, y + 1))
                 ELSE 0])

\* The bin of sample p: clamp(Math.round(gray[p])).
BinOf(buf, p) == clamp((2 * buf.data[p] + buf.den) \div (2 * buf.den), 0, 255)

\* The running sum of the histogram: the number of samples in bins 0..i.
CumHist(buf) ==
    [i \in 0..255 |-> Cardinality({p \in 1..Len(buf.data) : BinOf(buf, p) <= i})]

\* The first bin of a set of bins, or the value the variable started with.
FirstBin(bins, start) ==
    IF bins = {} THEN start ELSE CHOOSE i \in bins : \A j \in bins : i <= j

\* The (low, high) pairs preprocessForScanner passes to stretch, in percent.
StretchArgs == {<<2, 98>>, <<3, 97>>, <<1, 99>>}

\* out[i] = clamp(((gray[i] - a) / den) * 255), over the denominator
\* buf.den * den.
stretch(buf, lowPct, highPct) ==
    LET cum   == CumHist(buf)
        total == Len(buf.data)
        a     == FirstBin({i \in 0..255 : 100 * cum[i] >= total * lowPct}, 0)
        b     == FirstBin({i \in 0..255 : 100 * cum[i] >= total * highPct}, 255)
        den   == Max2(1, b - a)
    IN  Gray(buf.w, buf.h, buf.den * den,
             [p \in 1..total |->
                 clamp((buf.data[p] - a * buf.den) * 255, 0, 255 * buf.den * den)])

\* out[i] = clamp(((cdf[v] - cdfMin) / den) * 255), over the denominator den.
histogramEqualize(buf) ==
    LET cdf    == CumHist(buf)
        first  == FirstBin({i \in 0..255 : cdf[i] > 0}, 0 - 1)
        cdfMin == IF first < 0 THEN 0 ELSE cdf[first]
        den    == IF Len(buf.data) - cdfMin = 0 THEN 1 ELSE Len(buf.data) - cdfMin
    IN  Gray(buf.w, buf.h, den,
             [p \in 1..Len(buf.data) |->
                 clamp((cdf[BinOf(buf, p)] - cdfMin) * 255, 0, 255 * den)])

\* The strength preprocessForScanner passes, in tenths.
SharpenStrength == 12

\* out = clamp(c * (1 + 2 * strength) - (l + r) * strength), over the
\* denominator 10 * buf.den.
directionalSharpenVertical(buf, strength10) ==
    Gray(buf.w, buf.h, 10 * buf.den,
         [p \in 1..(buf.w * buf.h) |->
             LET x == (p - 1) % buf.w
                 y == (p - 1) \div buf.w
                 l == At(buf.data, buf.w, clamp(x - 1, 0, buf.w - 1), y)
                 c == At(buf.data, buf.w, x, y)
                 r == At(buf.data, buf.w, clamp(x + 1, 0, buf.w - 1), y)
             IN  clamp(c * (10 + 2 * strength10) - (l + r) * strength10,
                       0, 255 * 10 * buf.den)])

\* One enhancement primitive is applied to the buffer.
ApplyMedian3x3 ==
    /\ pix.op = "gray"
    /\ pix' = [op |-> "median3x3", src |-> pix.buf, out |-> median3x3(pix.buf)]
    /\ PixFrame

ApplyUnsharp ==
    /\ pix.op = "gray"
    /\ \E args \in UnsharpArgs :
          pix' = [op |-> "unsharp", src |-> pix.buf, args |-> args,
                  out |-> unsharp(pix.buf, args[1], args[2])]
    /\ PixFrame

ApplySobelX ==
    /\ pix.op = "gray"
    /\ pix' = [op |-> "sobelX", src |-> pix.buf, out |-> sobelX(pix.buf)]
    /\ PixFrame

ApplyStretch ==
    /\ pix.op = "gray"
    /\ \E args \in StretchArgs :
          pix' = [op |-> "stretch", src |-> pix.buf, args |-> args,
                  out |-> stretch(pix.buf, args[1], args[2])]
    /\ PixFrame

ApplyHistogramEqualize ==
    /\ pix.op = "gray"
    /\ pix' = [op |-> "histogramEqualize", src |-> pix.buf,
               out |-> histogramEqualize(pix.buf)]
    /\ PixFrame

ApplyDirectionalSharpenVertical ==
    /\ pix.op = "gray"
    /\ pix' = [op |-> "directionalSharpenVertical", src |-> pix.buf,
               out |-> directionalSharpenVertical(pix.buf, SharpenStrength)]
    /\ PixFrame

\* Math.round of the fraction n / d (d > 0): halves go up.
Round(n, d) == (2 * n + d) \div (2 * d)

\* data[i] * 0.299 + data[i + 1] * 0.587 + data[i + 2] * 0.114, in thousandths.
Luma1000(px) == 299 * px[1] + 587 * px[2] + 114 * px[3]

\* The grayscale of an RGBA image whose pixels are <<r, g, b, a>>.
grayFromImageData(image) ==
    Gray(image.w, image.h, 1000, [p \in 1..Len(image.data) |-> Luma1000(image.data[p])])

\* Math.max(r, g, b) - Math.min(r, g, b).
Saturation(px) ==
    Max2(px[1], Max2(px[2], px[3])) - Min2(px[1], Min2(px[2], px[3]))

\* The luma above which, and the saturation below which, a pixel is glare;
\* the radius of the smoothing and the margin added to the smoothed luma.
GlareLuma == 228
GlareSat == 35
GlareRadius == 7
GlareMargin == 10

\* gray[p] > 228 && sat < 35.
IsGlare(px) == Luma1000(px) > 1000 * GlareLuma /\ Saturation(px) < GlareSat

\* What a Uint8ClampedArray keeps of the fraction n / d: the nearest whole
\* number, halves to the even one, within 0..255.
StoreByte(n, d) ==
    LET q == n \div d
        r == n - q * d
        v == IF 2 * r < d THEN q
             ELSE IF 2 * r > d THEN q + 1
             ELSE IF q % 2 = 0 THEN q ELSE q + 1
    IN  clamp(v, 0, 255)

\* The channel is raised to the target: Math.max where the source has Math.min.
PulledUp(channel, target, den) ==
    IF channel * den >= target THEN channel ELSE StoreByte(target, den)

\* imageData.data[i] = Math.min(channel, target), target = target / den.
Pulled(channel, target, den) ==
    IF channel * den <= target THEN channel ELSE StoreByte(target, den)

deglare(image) ==
    LET gray   == grayFromImageData(image)
        smooth == boxBlur(gray, GlareRadius)
    IN  [image EXCEPT !.data =
            [p \in 1..Len(image.data) |->
                LET px     == image.data[p]
                    target == clamp(smooth.data[p] + GlareMargin * smooth.den,
                                    0, 255 * smooth.den)
                IN  IF IsGlare(px)
                    THEN <<Pulled(px[1], target, smooth.den),
                           Pulled(px[2], target, smooth.den),
                           Pulled(px[3], target, smooth.den), px[4]>>
                    ELSE px]]

\* deglare is applied to the image data.
ApplyDeglare ==
    /\ pix.op = "rgba"
    /\ pix' = [op |-> "deglare", src |-> pix.image, out |-> deglare(pix.image)]
    /\ PixFrame

\* The longer side autoCropLabel works on, the share of the largest row and
\* column energy (in percent) that ends the inward walk, the padding (in
\* percent of the box) and the least side of the crop.
DownSide == 360
RowCut == 45
ColCut == 35
PadXPct == 8
PadYPct == 18
MinCrop == 8

\* Math.max(1, Math.round(side * scale)) with scale = Math.min(1, 360 / longest).
Downscaled(side, longest) ==
    Max2(1, IF longest <= DownSide THEN side ELSE Round(side * DownSide, longest))

\* row[y] and col[x]: the sums of the edge samples of a row and of a column.
RowEnergy(edge) ==
    [y \in 0..(edge.h - 1) |->
        SumOver([x \in 0..(edge.w - 1) |-> At(edge.data, edge.w, x, y)], 0, edge.w - 1)]

ColEnergy(edge) ==
    [x \in 0..(edge.w - 1) |->
        SumOver([y \in 0..(edge.h - 1) |-> At(edge.data, edge.w, x, y)], 0, edge.h - 1)]

\* Math.max(...f) of f[0..n-1].
MaxOf(f, n) == CHOOSE v \in {f[k] : k \in 0..(n - 1)} : \A k \in 0..(n - 1) : f[k] <= v

\* while (i < n - 1 && f[i] < max * cut) i += 1, from i = 0.
WalkIn(f, n, max, cut) ==
    CHOOSE i \in 0..(n - 1) :
        /\ i = n - 1 \/ ~(100 * f[i] < cut * max)
        /\ \A k \in 0..(i - 1) : 100 * f[k] < cut * max

\* while (i > 0 && f[i] < max * cut) i -= 1, from i = n - 1.
WalkBack(f, n, max, cut) ==
    CHOOSE i \in 0..(n - 1) :
        /\ i = 0 \/ ~(100 * f[i] < cut * max)
        /\ \A k \in (i + 1)..(n - 1) : 100 * f[k] < cut * max

\* autoCropLabel on a canvas of width x height pixels whose downscaled
\* grayscale is gray: the box of the inward walk and the source rectangle
\* (sx, sy, sw, sh) handed to drawImage.
autoCropLabel(width, height, gray) ==
    LET w      == gray.w
        h      == gray.h
        edge   == sobelX(gray)
        row    == RowEnergy(edge)
        col    == ColEnergy(edge)
        rowMax == MaxOf(row, h)
        colMax == MaxOf(col, w)
        wy0    == WalkIn(row, h, rowMax, RowCut)
        wy1    == WalkBack(row, h, rowMax, RowCut)
        wx0    == WalkIn(col, w, colMax, ColCut)
        wx1    == WalkBack(col, w, colMax, ColCut)
        padX   == ((wx1 - wx0 + 1) * PadXPct) \div 100
        padY   == ((wy1 - wy0 + 1) * PadYPct) \div 100
        x0     == clamp(wx0 - padX, 0, w - 1)
        y0     == clamp(wy0 - padY, 0, h - 1)
        x1     == clamp(wx1 + padX, 0, w - 1)
        y1     == clamp(wy1 + padY, 0, h - 1)
    IN  [walk |-> [x0 |-> wx0, y0 |-> wy0, x1 |-> wx1, y1 |-> wy1],
         sx |-> (x0 * width) \div w,
         sy |-> (y0 * height) \div h,
         sw |-> Max2(MinCrop, ((x1 - x0 + 1) * width) \div w),
         sh |-> Max2(MinCrop, ((y1 - y0 + 1) * height) \div h)]

\* autoCropLabel is applied to the canvas.
ApplyAutoCropLabel ==
    /\ pix.op = "canvas"
    /\ pix' = [op |-> "autoCropLabel", width |-> pix.width, height |-> pix.height,
               src |-> pix.buf, out |-> autoCropLabel(pix.width, pix.height, pix.buf)]
    /\ PixFrame

\* hist[clamp(Math.round(gray[i]))] += 1 over the buffer.
Histogram(buf) ==
    [i \in 0..255 |->
        Cardinality({p \in 1..Len(buf.data) : clamp(Round(buf.data[p], buf.den), 0, 255) = i})]

\* One turn of the loop of otsu, at bin i.  st holds the loop's variables;
\* maxVar is the fraction maxVar[1] / maxVar[2], and the candidate
\* wB * wF * (mB - mF)^2 is (sumB * wF - (sum - sumB) * wB)^2 / (wB * wF).
\* done records that the loop has left through its break.
OtsuStep(hist, total, sum, i, st) ==
    IF st.done THEN st
    ELSE LET wB == st.wB + hist[i] IN
         IF wB = 0 THEN st
         ELSE LET wF == total - wB IN
              IF wF = 0 THEN [st EXCEPT !.wB = wB, !.done = TRUE]
              ELSE LET sumB == st.sumB + i * hist[i]
                       d    == sumB * wF - (sum - sumB) * wB
                       v    == <<d * d, wB * wF>>
                   IN  IF v[1] * st.maxVar[2] > st.maxVar[1] * v[2]
                       THEN [st EXCEPT !.wB = wB, !.sumB = sumB, !.maxVar = v, !.threshold = i]
                       ELSE [st EXCEPT !.wB = wB, !.sumB = sumB]

\* The turns of the loop for the bins lo..hi in increasing order.
RECURSIVE OtsuLoop(_, _, _, _, _, _)
OtsuLoop(hist, total, sum, lo, hi, st) ==
    IF lo = hi THEN OtsuStep(hist, total, sum, lo, st)
    ELSE LET mid  == (lo + hi) \div 2
             left == OtsuLoop(hist, total, sum, lo, mid, st)
         IN  IF left.done THEN left
             ELSE OtsuLoop(hist, total, sum, mid + 1, hi, left)

DefaultThreshold == 127

otsu(buf) ==
    LET hist == Histogram(buf)
        sum  == SumOver([i \in 0..255 |-> i * hist[i]], 0, 255)
    IN  OtsuLoop(hist, Len(buf.data), sum, 0, 255,
                 [sumB |-> 0, wB |-> 0, maxVar |-> <<0, 1>>,
                  threshold |-> DefaultThreshold, done |-> FALSE]).threshold

\* otsu is applied to the buffer.
ApplyOtsu ==
    /\ pix.op = "levels"
    /\ pix' = [op |-> "otsu", src |-> pix.buf, out |-> otsu(pix.buf)]
    /\ PixFrame

\* binary[i] = barcode[i] >= th ? 255 : 0.
binarize(buf, th) ==
    Gray(buf.w, buf.h, 1,
         [p \in 1..Len(buf.data) |-> IF buf.data[p] >= th * buf.den THEN 255 ELSE 0])

\* The buffer is thresholded at its own Otsu value.
ApplyBinarize ==
    /\ pix.op = "levels"
    /\ pix' = [op |-> "binarize", src |-> pix.buf, th |-> otsu(pix.buf),
               out |-> binarize(pix.buf, otsu(pix.buf))]
    /\ PixFrame

\* ---- decodeFromImage and tryDecodePasses (App.jsx)
\* The passes decodeFromImage hands to tryDecodePasses, as it orders them.
PassNamesSwapped ==
    << "Version B (OCR optimized)", "Version A (1D optimized)",
       "Fallback A (strong contrast)", "Fallback B (edge emphasis)",
       "Fallback C (threshold binarization)" >>

PassNames ==
    << "Version A (1D optimized)", "Version B (OCR optimized)",
       "Fallback A (strong contrast)", "Fallback B (edge emphasis)",
       "Fallback C (threshold binarization)" >>

\* What reader.decodeFromCanvas does on one pass: it throws, or yields a text.
Threw == [threw |-> TRUE]
Read(t) == [threw |-> FALSE, text |-> t]
DecodeOutcomes == {Threw, Read(AB123), Read(<<" ">> \o XYZ999 \o <<" ">>)}
FailingOutcomes == {Threw, Read(AB123)}

\* Any text the decoder yields is returned.
PassAcceptedAnyText(out) == ~out.threw

\* The body of the try block: the pass returns when the text is long enough.
PassAccepted(out) == ~out.threw /\ isLikelyBarcode(normalizeText(out.text))

\* The messages decodeFromImage hands to setError.
NoResultError == "No pude detectar barcode tras todas las pasadas de preprocesado."
LoadError == "No pude cargar la imagen."
ReadError == "No pude leer el código desde la imagen"

\* What happens to the file before tryDecodePasses: the image loads and is
\* preprocessed, or it does not load (img.onerror), or preprocessing or the
\* export of a preview throws (catch of the onload handler).
FileOutcomes == {"preprocessed", "onerror", "throws"}

\* decodeFromImage up to the call of tryDecodePasses (one upload at a time).
DecodeFromImage ==
    /\ img.pc # "pass"
    /\ \E o \in FileOutcomes :
          img' = IF o = "preprocessed" THEN [pc |-> "pass", outs |-> <<>>]
                 ELSE [pc |-> "failed", ok |-> FALSE, outs |-> <<>>,
                       error |-> IF o = "onerror" THEN LoadError ELSE ReadError]
    /\ lastEvent' = <<"decodeFromImage", <<>>>>
    /\ UNCHANGED <<now, rows, autoCommit, cooldownMs, liveCb, upl, ocrWorker, pageVars, deepVars, scanVars,
                   tickInfo, lastOcrStart, lastPhase>>

\* One iteration of tryDecodePasses; on its return, the rest of decodeFromImage.
ImagePass(outcomes) ==
    /\ img.pc = "pass"
    /\ \E out \in outcomes :
          LET outs == Append(img.outs, out)
              k    == Len(outs)
          IN  IF PassAccepted(out)
              THEN /\ img' = [pc |-> "done", ok |-> TRUE, text |-> normalizeText(out.text),
                              pass |-> PassNames[k], outs |-> outs, error |-> ""]
                   /\ rows' = Append(rows, [ts |-> now, barcode |-> normalizeText(out.text),
                                            format |-> "CODE_128"])
                   /\ Len(rows') <= MaxRows
              ELSE /\ img' = IF k = Len(PassNames)
                             THEN [pc |-> "done", ok |-> FALSE, outs |-> outs,
                                   error |-> NoResultError]
                             ELSE [img EXCEPT !.outs = outs]
                   /\ UNCHANGED rows
    /\ lastEvent' = <<"imagePass", <<>>>>
    /\ UNCHANGED <<now, autoCommit, cooldownMs, liveCb, upl, ocrWorker, pageVars, deepVars, scanVars,
                   tickInfo, lastOcrStart, lastPhase>>

\* A settled call leaves the list of pending ones.
RemoveAt(seq, i) == SubSeq(seq, 1, i - 1) \o SubSeq(seq, i + 1, Len(seq))

\* ---- Deep Scan: startCamera with its attempt, and the retry watchdog (App.jsx)
\* ---- bounds of the Deep Scan model
MaxCams == 1
MaxRetries == 1
MaxStartsLogged == 5
MaxWatchStreak == 9

LastAttempt == 4
FirstBump == 3
SecondBump == 6
ThirdBump == 9

\* What startCamera and the functions it calls read from the render in which
\* Iniciar was clicked.
DeepClosure ==
    [mode |-> scanMode, rowsLen |-> Len(rows),
     autoCommit |-> autoCommit, cooldownMs |-> cooldownMs]

\* What a step of the Deep Scan model leaves unchanged.
DeepFrame ==
    UNCHANGED <<now, rows, autoCommit, cooldownMs, fileVars, pageVars, scanVars,
                tickInfo, lastOcrStart, lastPhase>>

\* startCamera({attempt}) up to its await of decodeFromVideoDevice: stopCamera
\* stops the running decode; the call is recorded.
StartSync(attempt, cl, by) ==
    /\ Len(cams) < MaxCams
    /\ liveCb' = NoCb
    /\ cams' = Append(cams, [attempt |-> attempt, cl |-> cl])
    /\ startLog' = Append(IF by = "user" THEN <<>> ELSE startLog,
                          [attempt |-> attempt, by |-> by, mode |-> cl.mode,
                           count |-> Len(rows)])

\* Click on Iniciar.
DeepUserStart ==
    /\ StartSync(1, DeepClosure, "user")
    /\ lastEvent' = <<"startCamera", <<>>>>
    /\ halted' = FALSE
    /\ UNCHANGED <<scanMode, wd, retries>>
    /\ DeepFrame

\* The watchdog is started whatever the mode.
WatchdogWantedAlways(cl) == TRUE

WatchdogWanted(cl) == cl.mode = "deep"

\* decodeFromVideoDevice resolves: the decode callback is installed and, in
\* deep mode, startRetryWatchdog replaces the timer.
DeepStartResolves ==
    /\ \E i \in 1..Len(cams) :
          LET cl == cams[i].cl IN
          /\ cams' = RemoveAt(cams, i)
          /\ liveCb' = [installed |-> TRUE, autoCommit |-> cl.autoCommit,
                        cooldownMs |-> cl.cooldownMs]
          /\ wd' = IF WatchdogWanted(cl)
                   THEN [timer |-> [set |-> TRUE, cl |-> cl],
                         lastCount |-> cl.rowsLen, streak |-> 0]
                   ELSE wd
    /\ lastEvent' = <<"started", <<>>>>
    /\ UNCHANGED <<scanMode, retries, startLog, halted>>
    /\ DeepFrame

\* decodeFromVideoDevice rejects: in deep mode and below attempt 4 the next
\* attempt is scheduled 600 ms later.
DeepStartFails ==
    /\ \E i \in 1..Len(cams) :
          LET c == cams[i] IN
          /\ cams' = RemoveAt(cams, i)
          /\ IF c.cl.mode = "deep" /\ c.attempt < LastAttempt
             THEN /\ Len(retries) < MaxRetries
                  /\ retries' = Append(retries, [attempt |-> c.attempt + 1, cl |-> c.cl])
             ELSE UNCHANGED retries
    /\ lastEvent' = <<"startFailed", <<>>>>
    /\ UNCHANGED <<liveCb, scanMode, wd, startLog, halted>>
    /\ DeepFrame

\* The timeout of the start-failure path fires.
DeepRetryFires ==
    /\ \E i \in 1..Len(retries) :
          /\ Len(startLog) < MaxStartsLogged
          /\ StartSync(retries[i].attempt, retries[i].cl, "retry")
          /\ retries' = RemoveAt(retries, i)
    /\ lastEvent' = <<"startCamera", <<>>>>
    /\ UNCHANGED <<scanMode, wd, halted>>
    /\ DeepFrame

\* The attempt the watchdog starts when its streak reaches n (0: none).
BumpAt(n) ==
    IF n = FirstBump THEN 2
    ELSE IF n = SecondBump THEN 3
    ELSE IF n = ThirdBump THEN 4
    ELSE 0

\* One run of the interval callback of startRetryWatchdog.
WatchdogTick ==
    /\ wd.timer.set
    /\ LET currentCount == Len(rows)
           stale        == currentCount = wd.lastCount
           streak       == IF stale THEN wd.streak + 1 ELSE 0
       IN  /\ streak <= MaxWatchStreak
           /\ wd' = [wd EXCEPT !.lastCount = currentCount, !.streak = streak]
           /\ IF stale /\ BumpAt(streak) # 0
              THEN /\ Len(startLog) < MaxStartsLogged
                   /\ StartSync(BumpAt(streak), wd.timer.cl, "watchdog")
              ELSE UNCHANGED <<liveCb, cams, startLog>>
    /\ lastEvent' = <<"watchdog", <<>>>>
    /\ UNCHANGED <<scanMode, retries, halted>>
    /\ DeepFrame

\* Click on Detener: stopCamera.
DeepStopCamera ==
    /\ liveCb.installed
    /\ liveCb' = NoCb
    /\ lastEvent' = <<"stopCamera", <<>>>>
    /\ halted' = TRUE
    /\ UNCHANGED <<scanMode, wd, cams, retries, startLog>>
    /\ DeepFrame

\* The scan mode select.
SetScanMode ==
    /\ scanMode' = IF scanMode = "deep" THEN "fast" ELSE "deep"
    /\ lastEvent' = <<"setScanMode", <<>>>>
    /\ UNCHANGED <<liveCb, wd, cams, retries, startLog, halted>>
    /\ DeepFrame

ScanStateInit ==
    [active |-> FALSE, lastFrameData |-> Null, consecutiveStableFrames |-> 0,
     lastScanTime |-> 0, phaseStartTime |-> 0, stream |-> Null,
     ocrBusy |-> FALSE, lastOcrTime |-> 0]

NoTick == [decode |-> "notick"]

ScanVarsInit ==
    /\ scanState = ScanStateInit
    /\ serialLocked = FALSE
    /\ scanning = FALSE
    /\ scanPhase = 0
    /\ starts = <<>>
    /\ loops = <<>>
    /\ ocrChains = <<>>

NoPhase == 0 - 1

\* No upload is being processed.
Idle == [pc |-> "idle"]

\* watchdogRef as created, and no start in flight.
NoTimer == [set |-> FALSE]

DeepInit ==
    /\ scanMode = "deep"
    /\ wd = [timer |-> NoTimer, lastCount |-> 0, streak |-> 0]
    /\ cams = <<>>
    /\ retries = <<>>
    /\ startLog = <<>>
    /\ halted = FALSE

\* useRef(null) twice; no createWorker promise made, no getOcrWorker call.
NoWorker == [workerRef |-> 0, workerPromiseRef |-> 0, promises |-> <<>>, calls |-> <<>>]

FileInit ==
    /\ img = Idle
    /\ upl = Idle
    /\ ocrWorker = NoWorker

ObsInit ==
    /\ lastEvent = <<"init", <<>>>>
    /\ tickInfo = NoTick
    /\ lastOcrStart = 0
    /\ lastPhase = NoPhase


\* ------------------------------------------------------------------ scan loop (part_000)
\* ---- bounds of the scan model
MaxStreak == 4
MaxPendingStarts == 1
MaxLoops == 1
MaxChains == 2

\* ---- program constants
MotionThreshold == 25
NoPatchDiff == 100
MinStableFrames == 3
DebounceMs == 100
Phase1After == 2000
Phase2After == 5000
Phase3After == 8000
Phase4After == 12000
OcrPhase == 4
OcrThrottleMs == 1800

\* A sampled patch: RGBA bytes of two pixels (the source samples 32x32).
\* Red values are multiples of 10 and the patch has two pixels, so that every
\* mean below is an exact integer.
Patch(r1, r2) == <<r1, 0, 0, 255, r2, 0, 0, 255>>
Frames == {Patch(0, 0), Patch(50, 0), Patch(60, 0)}
\* The frames of the OCR timeline: one still scene and one that moved.
OcrFrames == {Patch(0, 0), Patch(60, 0)}

RECURSIVE SumRedDiff(_, _, _)
SumRedDiff(dataA, dataB, i) ==
    IF i > Len(dataA) THEN 0
    ELSE Abs(dataA[i] - dataB[i]) + SumRedDiff(dataA, dataB, i + 4)

calculateFrameDiff(dataA, dataB) ==
    IF dataA = Null \/ dataB = Null THEN NoPatchDiff
    ELSE IF Len(dataA) # Len(dataB) THEN NoPatchDiff
    ELSE SumRedDiff(dataA, dataB, 1) \div (Len(dataA) \div 4)

\* ---- extractSerialFromText
Upper(c) ==
    CASE c = "p" -> "P"
      [] c = "i" -> "I"
      [] c = "a" -> "A"
      [] c = "b" -> "B"
      [] OTHER   -> c

AlnumUpper == {"0", "2", "7", "9", "A", "B", "I", "P", "X"}

RECURSIVE CleanText(_)
CleanText(t) ==
    IF t = <<>> THEN <<>>
    ELSE LET c == Upper(Head(t)) IN
         IF c \in AlnumUpper THEN <<c>> \o CleanText(Tail(t)) ELSE CleanText(Tail(t))

SerialPrefix == <<"0", "2", "P", "I", "2", "0">>

\* /02PI20[A-Z0-9]+/g on a string of [A-Z0-9] only: a match starts at an
\* occurrence of the prefix that at least one character follows, and the greedy
\* class runs to the end of the string; the longest match is the leftmost one.
RECURSIVE FirstSerialFrom(_)
FirstSerialFrom(cleaned) ==
    IF Len(cleaned) <= Len(SerialPrefix) THEN Null
    ELSE IF SubSeq(cleaned, 1, Len(SerialPrefix)) = SerialPrefix THEN cleaned
    ELSE FirstSerialFrom(Tail(cleaned))

extractSerialFromText(text) ==
    FirstSerialFrom(CleanText(IF text = Null THEN <<>> ELSE text))

\* What Tesseract can answer for a crop (data.text).
OcrTexts == { <<"0", "2", "p", "i", "2", "0", "a">>,
              <<"x", " ", "0", "2", "P", "I", "2", "0", "-", "A">>,
              <<"0", "2", "P", "I", "2", "0">> }

\* ---- closures: the render whose functions a callback chain runs
Closure == [locked |-> serialLocked, phase |-> scanPhase, rows |-> rows]

hasSerial(rws, serial) ==
    \E k \in 1..Len(rws) : normalizeText(rws[k].serial) = normalizeText(serial)

\* saveSerial run from the render cl; the row update is functional (prev = rows).
SaveSerialCommits(cl, serial) == serial # Null /\ ~hasSerial(cl.rows, serial)

SaveSerial(cl, serial) ==
    IF SaveSerialCommits(cl, serial)
    THEN /\ rows' = Append(rows, [serial |-> serial])
         /\ serialLocked' = TRUE
    ELSE UNCHANGED <<rows, serialLocked>>

\* >= where the source compares with >.
ComputePhaseInclusive(elapsed) ==
    IF elapsed >= Phase4After THEN 4
    ELSE IF elapsed >= Phase3After THEN 3
    ELSE IF elapsed >= Phase2After THEN 2
    ELSE IF elapsed >= Phase1After THEN 1
    ELSE 0

\* The last threshold assigns 2 where the source assigns 4.
ComputePhaseTypo(elapsed) ==
    IF elapsed > Phase4After THEN 2
    ELSE IF elapsed > Phase3After THEN 3
    ELSE IF elapsed > Phase2After THEN 2
    ELSE IF elapsed > Phase1After THEN 1
    ELSE 0

ComputePhase(elapsed) ==
    IF elapsed > Phase4After THEN 4
    ELSE IF elapsed > Phase3After THEN 3
    ELSE IF elapsed > Phase2After THEN 2
    ELSE IF elapsed > Phase1After THEN 1
    ELSE 0

\* The busy flag is not consulted.
OcrBusyIgnored(st) == TRUE

OcrNotBusy(st) == ~st.ocrBusy

\* The throttle is not consulted.
OcrThrottleIgnored(st, dateNow) == TRUE


OcrThrottleOpen(st, dateNow) ==
    dateNow - st.lastOcrTime > OcrThrottleMs \/ st.lastOcrTime = 0

ShouldStartOcr(phase, st, dateNow) ==
    phase >= OcrPhase /\ OcrNotBusy(st) /\ OcrThrottleOpen(st, dateNow)

\* Whether attemptDecode gets past its two early returns.
DecodeRuns(cl, st, dateNow) ==
    ~cl.locked /\ ~(dateNow - st.lastScanTime < DebounceMs)

\* >= where the source compares with >.
StableEnoughInclusive(streak) == streak >= MinStableFrames

StableEnough(streak) == streak > MinStableFrames

\* >= where the source compares with >.
IsMotionInclusive(diff) == diff >= MotionThreshold

IsMotion(diff) == diff > MotionThreshold

\* The instants, after page load, at which something happens: the phase
\* thresholds themselves, and instants 1800 ms and 2000 ms apart beyond the last.
\* The phase timeline: the four phase thresholds after T0 and one later instant.
PhaseOffsets == {2000, 5000, 8000, 12000, 13800}

\* The OCR timeline: three instants of phase 4, 1800 ms and 2000 ms apart.
OcrOffsets == {13800, 15600, 17600}

ScanAdvance(offsets) ==
    /\ \E o \in offsets :
          /\ T0 + o > now
          /\ now' = T0 + o
    /\ UNCHANGED lastEvent
    /\ tickInfo' = NoTick
    /\ UNCHANGED <<rows, liveVars, scanVars, lastOcrStart, lastPhase>>

DropMeta(ss) == SelectSeq(ss, LAMBDA e : e.pc # "meta")

\* stopCamera: the assignments to scanState and to the React state.
StoppedScanState == [scanState EXCEPT !.active = FALSE, !.stream = Null]

StopCamera ==
    /\ scanState' = StoppedScanState
    /\ starts' = DropMeta(starts)
    /\ scanning' = FALSE
    /\ scanPhase' = 0
    /\ UNCHANGED lastEvent
    /\ tickInfo' = NoTick
    /\ UNCHANGED <<now, rows, liveVars, serialLocked, loops, ocrChains, lastOcrStart, lastPhase>>

\* startCamera up to its await of getUserMedia (the Iniciar button is disabled
\* while scanning).
StartCamera ==
    /\ ~scanning
    /\ Len(starts) < MaxPendingStarts
    /\ scanState' = [StoppedScanState EXCEPT !.active = TRUE, !.phaseStartTime = now]
    /\ starts' = Append(DropMeta(starts), [pc |-> "gum", cl |-> Closure])
    /\ serialLocked' = FALSE
    /\ scanning' = TRUE
    /\ scanPhase' = 0
    /\ UNCHANGED lastEvent
    /\ tickInfo' = NoTick
    /\ lastPhase' = NoPhase
    /\ UNCHANGED <<now, rows, liveVars, loops, ocrChains, lastOcrStart>>

\* getUserMedia resolves: the stream is stored and handed to the video element,
\* whose loadedmetadata handler is replaced.
GumResolve ==
    /\ \E i \in 1..Len(starts) :
          /\ starts[i].pc = "gum"
          /\ starts' = Append(DropMeta(RemoveAt(starts, i)), [starts[i] EXCEPT !.pc = "meta"])
    /\ scanState' = [scanState EXCEPT !.stream = "stream"]
    /\ UNCHANGED lastEvent
    /\ tickInfo' = NoTick
    /\ UNCHANGED <<now, rows, liveVars, serialLocked, scanning, scanPhase, loops,
                   ocrChains, lastOcrStart, lastPhase>>

\* getUserMedia rejects: the catch block.
GumReject ==
    /\ \E i \in 1..Len(starts) :
          /\ starts[i].pc = "gum"
          /\ starts' = RemoveAt(starts, i)
    /\ scanning' = FALSE
    /\ UNCHANGED lastEvent
    /\ tickInfo' = NoTick
    /\ UNCHANGED <<now, rows, liveVars, scanState, serialLocked, scanPhase, loops,
                   ocrChains, lastOcrStart, lastPhase>>

\* onloadedmetadata: requestAnimationFrame(scanLoop), while fewer than
\* maxLoops chains are alive.
LoadedMetadataUpTo(maxLoops) ==
    /\ Len(loops) < maxLoops
    /\ \E i \in 1..Len(starts) :
          /\ starts[i].pc = "meta"
          /\ loops' = Append(loops, starts[i].cl)
          /\ starts' = RemoveAt(starts, i)
    /\ UNCHANGED lastEvent
    /\ tickInfo' = NoTick
    /\ UNCHANGED <<now, rows, liveVars, scanState, serialLocked, scanning, scanPhase,
                   ocrChains, lastOcrStart, lastPhase>>

LoadedMetadata == LoadedMetadataUpTo(MaxLoops)

\* scanLoop called while the session is inactive: the chain ends.
ScanLoopExit ==
    /\ ~scanState.active
    /\ \E i \in 1..Len(loops) : loops' = RemoveAt(loops, i)
    /\ UNCHANGED lastEvent
    /\ tickInfo' = NoTick
    /\ UNCHANGED <<now, rows, liveVars, scanState, serialLocked, scanning, scanPhase,
                   starts, ocrChains, lastOcrStart, lastPhase>>

\* scanLoop while the video has not enough data: only reschedules itself.
ScanLoopNotReady ==
    /\ scanState.active
    /\ loops # <<>>
    /\ UNCHANGED lastEvent
    /\ tickInfo' = NoTick
    /\ UNCHANGED <<now, rows, liveVars, scanVars, lastOcrStart, lastPhase>>

\* attemptDecode from the render cl, on the scanState st left by the gate.
AttemptDecode(cl, st, diff) ==
    IF ~DecodeRuns(cl, st, now)
    THEN /\ scanState' = st
         /\ tickInfo' = [diff |-> diff, decode |-> "returned", phase |-> NoPhase, attempts |-> {}]
         /\ UNCHANGED <<scanPhase, ocrChains, lastOcrStart, lastPhase>>
    ELSE LET st1      == [st EXCEPT !.lastScanTime = now]
             elapsed  == now - st1.phaseStartTime
             phase    == ComputePhase(elapsed)
             startOcr == ShouldStartOcr(phase, st1, now)
         IN  /\ scanPhase' = IF phase # cl.phase THEN phase ELSE scanPhase
             /\ scanState' = IF startOcr
                             THEN [st1 EXCEPT !.ocrBusy = TRUE, !.lastOcrTime = now]
                             ELSE st1
             /\ startOcr => Len(ocrChains) < MaxChains
             /\ ocrChains' = IF startOcr
                             THEN Append(ocrChains, [pc |-> "detect", cl |-> cl])
                             ELSE ocrChains
             /\ lastOcrStart' = IF startOcr THEN now ELSE lastOcrStart
             /\ lastPhase' = phase
             /\ tickInfo' = [diff |-> diff, decode |-> "ran", phase |-> phase,
                             attempts |-> IF startOcr THEN {"primary", "ocr"} ELSE {},
                             prevPhase |-> lastPhase,
                             prevOcrStart |-> IF startOcr THEN lastOcrStart ELSE 0]

\* One run of scanLoop on a frame: stability gate, then attemptDecode.
ScanTick(frames) ==
    /\ scanState.active
    /\ \E i \in 1..Len(loops), f \in frames :
          LET cl   == loops[i]
              diff == calculateFrameDiff(scanState.lastFrameData, f)
              st0  == [scanState EXCEPT !.lastFrameData = f]
          IN  IF IsMotion(diff)
              THEN /\ scanState' = [st0 EXCEPT !.consecutiveStableFrames = 0]
                   /\ tickInfo' = [diff |-> diff, decode |-> "none", phase |-> NoPhase, attempts |-> {}]
                   /\ UNCHANGED <<scanPhase, ocrChains, lastOcrStart, lastPhase>>
              ELSE /\ scanState.consecutiveStableFrames < MaxStreak
                   /\ LET st1 == [st0 EXCEPT !.consecutiveStableFrames = @ + 1]
                      IN  IF StableEnough(st1.consecutiveStableFrames)
                          THEN AttemptDecode(cl, st1, diff)
                          ELSE /\ scanState' = st1
                               /\ tickInfo' = [diff |-> diff, decode |-> "none", phase |-> NoPhase,
                                               attempts |-> {}]
                               /\ UNCHANGED <<scanPhase, ocrChains, lastOcrStart, lastPhase>>
    /\ UNCHANGED lastEvent
    /\ UNCHANGED <<now, rows, liveVars, serialLocked, scanning, starts, loops>>

\* detectBarcodeBBoxFromCanvas resolves (always with a box).
OcrDetectDone ==
    /\ \E i \in 1..Len(ocrChains) :
          /\ ocrChains[i].pc = "detect"
          /\ ocrChains' = [ocrChains EXCEPT ![i].pc = "recognize1"]
    /\ UNCHANGED lastEvent
    /\ tickInfo' = NoTick
    /\ UNCHANGED <<now, rows, liveVars, scanState, serialLocked, scanning, scanPhase,
                   starts, loops, lastOcrStart, lastPhase>>

\* The chain ends without its finally: the busy flag stays set.
OcrChainEndsKeepsBusy(i, serial) ==
    /\ SaveSerial(ocrChains[i].cl, serial)
    /\ Len(rows') <= MaxSerialRows
    /\ scanState' = scanState
    /\ ocrChains' = RemoveAt(ocrChains, i)
    /\ UNCHANGED lastEvent
    /\ lastPhase' = IF rows' # rows THEN NoPhase ELSE lastPhase
    /\ tickInfo' = NoTick
    /\ UNCHANGED <<now, liveVars, scanning, scanPhase, starts, loops, lastOcrStart>>

\* The end of the promise chain: then (saveSerial on success), finally.
OcrChainEnds(i, serial) ==
    /\ SaveSerial(ocrChains[i].cl, serial)
    /\ Len(rows') <= MaxSerialRows
    /\ scanState' = [scanState EXCEPT !.ocrBusy = FALSE]
    /\ ocrChains' = RemoveAt(ocrChains, i)
    /\ UNCHANGED lastEvent
    /\ lastPhase' = IF rows' # rows THEN NoPhase ELSE lastPhase
    /\ tickInfo' = NoTick
    /\ UNCHANGED <<now, liveVars, scanning, scanPhase, starts, loops, lastOcrStart>>

\* worker.recognize on the binarized crop resolves with a text.
OcrFirstRecognize ==
    \E i \in 1..Len(ocrChains), text \in OcrTexts :
       /\ ocrChains[i].pc = "recognize1"
       /\ LET serial == extractSerialFromText(text) IN
          IF serial # Null
          THEN OcrChainEnds(i, serial)
          ELSE /\ ocrChains' = [ocrChains EXCEPT ![i].pc = "recognize2"]
               /\ tickInfo' = NoTick
               /\ UNCHANGED <<now, rows, liveVars, scanState, serialLocked, scanning,
                              scanPhase, starts, loops, lastOcrStart, lastPhase, lastEvent>>

\* worker.recognize on the inverted crop resolves with a text.
OcrSecondRecognize ==
    \E i \in 1..Len(ocrChains), text \in OcrTexts :
       /\ ocrChains[i].pc = "recognize2"
       /\ OcrChainEnds(i, extractSerialFromText(text))

\* An engine call of tryOcrSerialFromRoi throws: caught, the attempt fails.
OcrEngineThrows ==
    \E i \in 1..Len(ocrChains) :
       /\ ocrChains[i].pc \in {"recognize1", "recognize2"}
       /\ OcrChainEnds(i, Null)

\* ---- decodeFromImage of the serial revision (part_000)
\* What a barcode locator (ZXing, then Quagga) does: it throws, finds nothing,
\* or yields the corners of a box.
LocatorOutcomes == {"throws", "nothing", "box"}

\* The sizes (width, height) of the canvas an uploaded image is drawn on.
UploadSizes == {<<100, 50>>, <<64, 48>>}

\* The corner points a locator reports, in hundredths of a pixel.
LocatedPoints == << [x |-> 1050, y |-> 575], [x |-> 1250, y |-> 2040], [x |-> 6025, y |-> 580] >>

\* A bounding box in hundredths of a pixel; NoBox is the null a locator
\* without points gives.
NoBox == [found |-> FALSE]
BBox(x, y, width, height) ==
    [found |-> TRUE, x |-> x, y |-> y, width |-> width, height |-> height]

\* Math.min(...) and Math.max(...) of one coordinate of the points.
MinCoord(points, c) ==
    CHOOSE v \in {points[k][c] : k \in 1..Len(points)} :
        \A k \in 1..Len(points) : v <= points[k][c]

MaxCoord(points, c) ==
    CHOOSE v \in {points[k][c] : k \in 1..Len(points)} :
        \A k \in 1..Len(points) : points[k][c] <= v

\* Math.floor and Math.ceil of a value in hundredths, in whole units.
Floor100(v) == v \div 100
Ceil100(v) == 0 - ((0 - v) \div 100)

\* The least side of a box made from ZXing's result points.
MinBoxSide == 8

\* null without points; else the box around them, x and y floored and not
\* negative, width and height rounded up and at least 8.
getBBoxFromZXingResult(points) ==
    IF Len(points) = 0 THEN NoBox
    ELSE BBox(100 * Max2(0, Floor100(MinCoord(points, "x"))),
              100 * Max2(0, Floor100(MinCoord(points, "y"))),
              100 * Max2(MinBoxSide, Ceil100(MaxCoord(points, "x") - MinCoord(points, "x"))),
              100 * Max2(MinBoxSide, Ceil100(MaxCoord(points, "y") - MinCoord(points, "y"))))

\* The box around the corners Quagga reports.
QuaggaBox(points) ==
    BBox(MinCoord(points, "x"), MinCoord(points, "y"),
         MaxCoord(points, "x") - MinCoord(points, "x"),
         MaxCoord(points, "y") - MinCoord(points, "y"))

\* The fallback box is half the canvas wide.
getCenteredFallbackBBoxHalf(width, height) ==
    BBox((100 * width - 50 * width) \div 2, 58 * height, 50 * width, 20 * height)

\* w = width * 0.7, h = height * 0.2, x = (width - w) / 2, y = height * 0.58.
getCenteredFallbackBBox(width, height) ==
    BBox((100 * width - 70 * width) \div 2, 58 * height, 70 * width, 20 * height)

\* What a step of the upload leaves unchanged besides upl, rows, serialLocked.
UploadFrame ==
    /\ tickInfo' = NoTick
    /\ lastPhase' = IF rows' # rows THEN NoPhase ELSE lastPhase
    /\ UNCHANGED <<now, autoCommit, cooldownMs, liveCb, img, ocrWorker, pageVars, deepVars, scanState, scanning,
                   scanPhase, starts, loops, ocrChains, lastEvent, lastOcrStart>>

\* decodeFromImage up to the first await of detectBarcodeBBoxFromCanvas (one
\* upload at a time).
UploadStart ==
    /\ upl.pc \in {"idle", "done"}
    /\ \E size \in UploadSizes :
          upl' = [pc |-> "zxing", cl |-> Closure, calls |-> <<>>, canvas |-> size]
    /\ UNCHANGED <<rows, serialLocked>>
    /\ UploadFrame

\* detectBarcodeBBoxFromCanvas: decodeFromCanvas of the ZXing reader settles.
UploadZxing ==
    /\ upl.pc = "zxing"
    /\ \E o \in LocatorOutcomes :
          LET box == IF o = "throws" THEN NoBox
                     ELSE getBBoxFromZXingResult(IF o = "box" THEN LocatedPoints ELSE <<>>)
          IN  upl' = IF box.found
                     THEN [pc |-> "worker", cl |-> upl.cl, bbox |-> "zxing", rect |-> box,
                           canvas |-> upl.canvas,
                           calls |-> Append(upl.calls, <<"zxing", o>>)]
                     ELSE [upl EXCEPT !.pc = "quagga",
                                      !.calls = Append(upl.calls, <<"zxing", o>>)]
    /\ UNCHANGED <<rows, serialLocked>>
    /\ UploadFrame

\* detectBarcodeBBoxFromCanvas: Quagga.decodeSingle settles; without a box the
\* centered fallback box is returned. tryOcrSerialFromRoi starts.
UploadQuagga ==
    /\ upl.pc = "quagga"
    /\ \E o \in LocatorOutcomes :
          upl' = [pc |-> "worker", cl |-> upl.cl,
                  bbox |-> IF o = "box" THEN "quagga" ELSE "fallback",
                  rect |-> IF o = "box" THEN QuaggaBox(LocatedPoints)
                           ELSE getCenteredFallbackBBox(upl.canvas[1], upl.canvas[2]),
                  canvas |-> upl.canvas,
                  calls |-> Append(upl.calls, <<"quagga", o>>)]
    /\ UNCHANGED <<rows, serialLocked>>
    /\ UploadFrame

\* The attempt reports success whatever was recognized.
UploadEndsAlwaysSuccess(calls, serial) ==
    /\ upl' = [pc |-> "done", bbox |-> upl.bbox, rect |-> upl.rect,
               canvas |-> upl.canvas, calls |-> calls,
               success |-> TRUE, serial |-> serial]
    /\ SaveSerial(upl.cl, serial)
    /\ Len(rows') <= MaxSerialRows
    /\ UploadFrame

\* The return of tryOcrSerialFromRoi and the rest of decodeFromImage.
UploadEnds(calls, serial) ==
    /\ upl' = [pc |-> "done", bbox |-> upl.bbox, rect |-> upl.rect,
               canvas |-> upl.canvas, calls |-> calls,
               success |-> serial # Null, serial |-> serial]
    /\ SaveSerial(upl.cl, serial)
    /\ Len(rows') <= MaxSerialRows
    /\ UploadFrame

\* tryOcrSerialFromRoi: getOcrWorker settles.
UploadWorker ==
    /\ upl.pc = "worker"
    /\ \/ /\ upl' = [upl EXCEPT !.pc = "recognize1",
                                 !.calls = Append(upl.calls, <<"worker", "ok">>)]
          /\ UNCHANGED <<rows, serialLocked>>
          /\ UploadFrame
       \/ UploadEnds(Append(upl.calls, <<"worker", "throws">>), Null)

\* How a recognized text counts for the record of calls.
Verdict(text) == IF extractSerialFromText(text) # Null THEN "hit" ELSE "miss"

\* tryOcrSerialFromRoi: worker.recognize on the binarized crop settles.
UploadFirstRecognize ==
    /\ upl.pc = "recognize1"
    /\ \/ \E text \in OcrTexts :
             LET serial == extractSerialFromText(text)
                 calls  == Append(upl.calls, <<"recognize1", Verdict(text)>>)
             IN  IF serial # Null
                 THEN UploadEnds(calls, serial)
                 ELSE /\ upl' = [upl EXCEPT !.pc = "recognize2", !.calls = calls]
                      /\ UNCHANGED <<rows, serialLocked>>
                      /\ UploadFrame
       \/ UploadEnds(Append(upl.calls, <<"recognize1", "throws">>), Null)

\* tryOcrSerialFromRoi: worker.recognize on the inverted crop settles.
UploadSecondRecognize ==
    /\ upl.pc = "recognize2"
    /\ \/ \E text \in OcrTexts :
             UploadEnds(Append(upl.calls, <<"recognize2", Verdict(text)>>),
                        extractSerialFromText(text))
       \/ UploadEnds(Append(upl.calls, <<"recognize2", "throws">>), Null)

ScanInit ==
    /\ now = T0
    /\ rows = <<>>
    /\ autoCommit = TRUE
    /\ cooldownMs = DefaultCooldownMs
    /\ liveCb = NoCb
    /\ FileInit
    /\ PageInit
    /\ DeepInit
    /\ ScanVarsInit
    /\ ObsInit

\* The scan loop on the phase timeline.
ScanNext ==
    \/ ScanAdvance(PhaseOffsets)
    \/ StartCamera
    \/ StopCamera
    \/ GumResolve
    \/ GumReject
    \/ LoadedMetadata
    \/ ScanLoopExit
    \/ ScanLoopNotReady
    \/ ScanTick(Frames)
    \/ OcrDetectDone
    \/ OcrFirstRecognize
    \/ OcrSecondRecognize
    \/ OcrEngineThrows

SpecScan == ScanInit /\ [][ScanNext]_vars

\* Starts and stops of the camera with room for one more loop chain.
LoopsNext ==
    \/ StartCamera
    \/ StopCamera
    \/ GumResolve
    \/ GumReject
    \/ LoadedMetadataUpTo(MaxLoops + 1)
    \/ ScanLoopExit
    \/ ScanLoopNotReady
    \/ ScanTick(Frames)

SpecLoops == ScanInit /\ [][LoopsNext]_vars

\* The scan loop on the OCR timeline.
OcrNext ==
    \/ ScanAdvance(OcrOffsets)
    \/ StartCamera
    \/ StopCamera
    \/ GumResolve
    \/ GumReject
    \/ LoadedMetadata
    \/ ScanLoopExit
    \/ ScanLoopNotReady
    \/ ScanTick(OcrFrames)
    \/ OcrDetectDone
    \/ OcrFirstRecognize
    \/ OcrSecondRecognize
    \/ OcrEngineThrows

SpecOcr == ScanInit /\ [][OcrNext]_vars

\* The same, with every engine call of an OCR promise chain settling.
SpecOcrFair ==
    /\ SpecOcr
    /\ WF_vars(OcrDetectDone)
    /\ WF_vars(OcrFirstRecognize)
    /\ WF_vars(OcrSecondRecognize)

LiveInit ==
    /\ now = T0
    /\ rows = <<>>
    /\ autoCommit = TRUE
    /\ cooldownMs = DefaultCooldownMs
    /\ liveCb = NoCb
    /\ FileInit
    /\ PageInit
    /\ DeepInit
    /\ ScanVarsInit
    /\ ObsInit

LiveNext ==
    \/ LiveAdvance
    \/ LiveStartCamera
    \/ LiveStopCamera
    \/ SetAutoCommit
    \/ LiveDetect
    \/ LiveCommitManual
    \/ LiveClearAll

SpecLive == LiveInit /\ [][LiveNext]_vars


\* The three ways a reading reaches the log of App.jsx, at one instant.
ImageNext ==
    \/ LiveStartCamera
    \/ LiveDetect
    \/ LiveCommitManual
    \/ LiveClearAll
    \/ DecodeFromImage
    \/ ImagePass(DecodeOutcomes)

SpecImage == LiveInit /\ [][ImageNext]_vars


\* What an earlier visit, or anything else, can have left under LS_KEY.
StoredValues ==
    {Missing, EmptyText, Garbage, JsonNull, JsonObject, JsonStringify(<<>>),
     JsonStringify(<<[ts |-> 400, barcode |-> XYZ999, format |-> "MANUAL"]>>)}

\* The page has just been loaded on any stored value.
StoreInit ==
    /\ now = T0
    /\ storage \in {[raw |-> raw, seen |-> NotSeen, wrote |-> FALSE] : raw \in StoredValues}
    /\ rows = loadRows(storage.raw)
    /\ pix = NoPix
    /\ autoCommit = TRUE
    /\ cooldownMs = DefaultCooldownMs
    /\ liveCb = NoCb
    /\ FileInit
    /\ DeepInit
    /\ ScanVarsInit
    /\ ObsInit

\* Commits, clears, the save effect and reloads.
StoreNext ==
    \/ LiveCommitManual
    \/ LiveClearAll
    \/ SaveEffect
    \/ Reload

SpecStore == StoreInit /\ [][StoreNext]_vars


\* The samples of the test images: black and white.
GrayLevels == {0, 255}

\* Every image of at most maxW by maxH samples.
GrayImages(maxW, maxH) ==
    UNION { { Gray(w, h, 1, data) : data \in [1..(w * h) -> GrayLevels] } :
            <<w, h>> \in (1..maxW) \X (1..maxH) }

\* The state of the page with pix holding the input of an image function.
PixInit(inputs) ==
    /\ pix \in inputs
    /\ now = T0
    /\ rows = <<>>
    /\ storage = [raw |-> Missing, seen |-> NotSeen, wrote |-> FALSE]
    /\ autoCommit = TRUE
    /\ cooldownMs = DefaultCooldownMs
    /\ liveCb = NoCb
    /\ FileInit
    /\ DeepInit
    /\ ScanVarsInit
    /\ ObsInit

\* The intensities of the buffers handed to otsu.
OtsuLevels == {0, 20, 127, 220, 255}

\* Every one-row buffer of at most maxLen samples over these intensities.
OtsuInputs(maxLen) ==
    UNION { { [op |-> "levels", buf |-> Gray(n, 1, 1, data)] : data \in [1..n -> OtsuLevels] } :
            n \in 1..maxLen }

\* Images up to MaxW x (MaxH + 1), large enough to have an interior sample.
EnhanceInit == PixInit({[op |-> "gray", buf |-> b] : b \in GrayImages(MaxW, MaxH + 1)})

EnhanceNext ==
    \/ ApplyBoxBlur
    \/ ApplyMedian3x3
    \/ ApplyUnsharp
    \/ ApplySobelX
    \/ ApplyStretch
    \/ ApplyHistogramEqualize
    \/ ApplyDirectionalSharpenVertical

\* Each enhancement primitive applied to one buffer.
SpecEnhance == EnhanceInit /\ [][EnhanceNext]_vars

\* The width of the striped canvases.
StripeW == 10

\* A canvas of three rows whose columns are each black or white.
Stripes(w) ==
    { Gray(w, MaxH + 1, 1, [p \in 1..(w * (MaxH + 1)) |-> cols[((p - 1) % w) + 1]]) :
      cols \in [1..w -> GrayLevels] }

\* Canvases no longer than DownSide, which autoCropLabel does not downscale:
\* every black and white image up to MaxW x (MaxH + 1), and the striped ones.
CropInputs(images) ==
    { [op |-> "canvas", width |-> b.w, height |-> b.h, buf |-> b] : b \in images }

CropInit == PixInit(CropInputs(GrayImages(MaxW, MaxH + 1) \cup Stripes(StripeW)))

\* autoCropLabel applied to one canvas.
SpecCrop == CropInit /\ [][ApplyAutoCropLabel]_vars

\* A glare pixel, a dark half-transparent pixel, and a bright pixel whose
\* saturation is just too high to be glare.
Palette == {<<240, 235, 230, 255>>, <<40, 40, 40, 128>>, <<255, 255, 220, 200>>}

\* Every RGBA image of at most side x side pixels over the palette.
RgbaImages(side) ==
    UNION { { [w |-> w, h |-> h, data |-> data] : data \in [1..(w * h) -> Palette] } :
            w \in 1..side, h \in 1..side }

DeglareInit == PixInit({[op |-> "rgba", image |-> i] : i \in RgbaImages(MaxH)})

\* deglare applied to one image.
SpecDeglare == DeglareInit /\ [][ApplyDeglare]_vars

OtsuInit == PixInit(OtsuInputs(MaxW))

\* otsu applied to one buffer.
SpecOtsu == OtsuInit /\ [][ApplyOtsu \/ ApplyBinarize]_vars

BlurInit == PixInit({[op |-> "gray", buf |-> b] : b \in GrayImages(MaxW, MaxH)})

SpecBlur == BlurInit /\ [][ApplyBoxBlur]_vars


\* Uploads whose engines may fail: tryDecodePasses on passes that all fail, and
\* the upload path of the serial revision.
UploadNext ==
    \/ DecodeFromImage
    \/ ImagePass(FailingOutcomes)
    \/ UploadStart
    \/ UploadZxing
    \/ UploadQuagga
    \/ UploadWorker
    \/ UploadFirstRecognize
    \/ UploadSecondRecognize

SpecUpload == ScanInit /\ [][UploadNext]_vars

\* ------------------------------------------------------------ getOcrWorker
\* A worker is named by the number of the createWorker call that made it, and
\* the promise of the async function around that call by the same number.

MaxWorkerCalls == 4

\* The callers of tryOcrSerialFromRoi, which calls getOcrWorker.
WorkerCallers == {"scanLoop", "decodeFromImage"}

WorkerFrame == UNCHANGED <<now, rows, autoCommit, cooldownMs, liveCb, img, upl, pageVars,
                           deepVars, scanVars, obsVars>>

\* getOcrWorker with the pending promise not kept: each call before the first
\* worker is ready creates its own.
GetOcrWorkerNoPromise(by) ==
    /\ Len(ocrWorker.calls) < MaxWorkerCalls
    /\ ocrWorker' =
          IF ocrWorker.workerRef # 0
          THEN [ocrWorker EXCEPT !.calls = Append(@, [by |-> by, pc |-> "have", p |-> 0,
                                                      w |-> ocrWorker.workerRef])]
          ELSE LET p == Len(ocrWorker.promises) + 1
               IN  [ocrWorker EXCEPT !.promises = Append(@, "createWorker"),
                                     !.calls = Append(@, [by |-> by, pc |-> "await",
                                                          p |-> p, w |-> 0])]
    /\ WorkerFrame

\* getOcrWorker up to its return: the worker, the pending promise, or the
\* promise of a new async function that runs up to await Tesseract.createWorker.
GetOcrWorker(by) ==
    /\ Len(ocrWorker.calls) < MaxWorkerCalls
    /\ ocrWorker' =
          IF ocrWorker.workerRef # 0
          THEN [ocrWorker EXCEPT !.calls = Append(@, [by |-> by, pc |-> "have", p |-> 0,
                                                      w |-> ocrWorker.workerRef])]
          ELSE IF ocrWorker.workerPromiseRef # 0
          THEN [ocrWorker EXCEPT !.calls = Append(@, [by |-> by, pc |-> "await",
                                                      p |-> ocrWorker.workerPromiseRef,
                                                      w |-> 0])]
          ELSE LET p == Len(ocrWorker.promises) + 1
               IN  [ocrWorker EXCEPT !.promises = Append(@, "createWorker"),
                                     !.workerPromiseRef = p,
                                     !.calls = Append(@, [by |-> by, pc |-> "await",
                                                          p |-> p, w |-> 0])]
    /\ WorkerFrame

\* Tesseract.createWorker settles: setParameters is called, or the async
\* function rejects, leaving workerPromiseRef as it is.
CreateWorkerSettles ==
    /\ \E p \in 1..Len(ocrWorker.promises) :
          /\ ocrWorker.promises[p] = "createWorker"
          /\ \E o \in {"setParameters", "rejected"} :
                ocrWorker' = [ocrWorker EXCEPT !.promises[p] = o]
    /\ WorkerFrame

\* setParameters settles: the refs are set and the worker returned, or the
\* async function rejects.
SetParametersSettles ==
    /\ \E p \in 1..Len(ocrWorker.promises) :
          /\ ocrWorker.promises[p] = "setParameters"
          /\ \/ ocrWorker' = [ocrWorker EXCEPT !.promises[p] = "resolved",
                                               !.workerRef = p,
                                               !.workerPromiseRef = 0]
             \/ ocrWorker' = [ocrWorker EXCEPT !.promises[p] = "rejected"]
    /\ WorkerFrame

\* await getOcrWorker() in tryOcrSerialFromRoi resumes: with the worker, or
\* in the catch.
WorkerAwaitResumes ==
    /\ \E i \in 1..Len(ocrWorker.calls) :
          LET c == ocrWorker.calls[i]
          IN  /\ c.pc = "await"
              /\ ocrWorker.promises[c.p] \in {"resolved", "rejected"}
              /\ ocrWorker' =
                    [ocrWorker EXCEPT !.calls[i] =
                        IF ocrWorker.promises[c.p] = "resolved"
                        THEN [c EXCEPT !.pc = "have", !.w = c.p]
                        ELSE [c EXCEPT !.pc = "catch"]]
    /\ WorkerFrame

WorkerNext ==
    \/ \E by \in WorkerCallers : GetOcrWorker(by)
    \/ CreateWorkerSettles
    \/ SetParametersSettles
    \/ WorkerAwaitResumes

SpecWorker == ScanInit /\ [][WorkerNext]_vars


\* Deep Scan: starts, failures, the watchdog, and readings of the live scan.
DeepNext ==
    \/ DeepUserStart
    \/ DeepStartResolves
    \/ DeepStartFails
    \/ DeepRetryFires
    \/ WatchdogTick
    \/ DeepStopCamera
    \/ SetScanMode
    \/ LiveDetectOf({ABC123})

SpecDeep == LiveInit /\ [][DeepNext]_vars


\* ================================================================== claims
LastRow == rows[Len(rows)]

\* A step of the decode callback on the detection raw.
Detects(raw) == lastEvent' = <<"detect", raw>>

\* C1: a detection whose normalized value equals the value of the most
\* recently committed row, arriving no more than windowMs after that row's
\* commit, is not appended to the log.
C1_RecentDuplicateRejected ==
    [][\A raw \in RawTexts :
          (/\ Detects(raw)
           /\ rows # <<>>
           /\ normalizeText(raw) = normalizeText(LastRow.barcode)
           /\ now - LastRow.ts <= liveCb.cooldownMs)
          => rows' = rows]_vars

\* C2: an acceptable detection is appended when the log is empty, when its
\* value differs from the most recently committed row's value, and when it
\* equals that value but more than windowMs has elapsed since that commit.
C2_AcceptedDetectionAppended ==
    [][\A raw \in RawTexts :
          (/\ Detects(raw)
           /\ liveCb.autoCommit
           /\ isLikelyBarcode(raw)
           /\ \/ rows = <<>>
              \/ normalizeText(raw) # normalizeText(LastRow.barcode)
              \/ now - LastRow.ts > liveCb.cooldownMs)
          => /\ Len(rows') = Len(rows) + 1
             /\ SubSeq(rows', 1, Len(rows)) = rows
             /\ rows'[Len(rows')].barcode = normalizeText(raw)]_vars

\* C3: a commit during a scan session leaves the phase at 0 and
\* phaseStartTime at the commit time.
C3_CommitResetsPhase ==
    [][(scanState.active /\ Len(rows') > Len(rows))
          => (scanPhase' = 0 /\ scanState'.phaseStartTime = now')]_vars

\* The attempts the phase table asks of a decode tick in phase p.
CumulativeAttempts(p) ==
    {"primary"}
    \cup (IF p >= 1 THEN {"secondary"} ELSE {})
    \cup (IF p >= 2 THEN {"stretch"} ELSE {})
    \cup (IF p >= 3 THEN {"binarize", "invert"} ELSE {})
    \cup (IF p >= 4 THEN {"ocr"} ELSE {})

\* C4: every decode tick runs the primary decoder, and a tick in phase k makes
\* all the attempts of the phases up to k.
C4_PhasesCumulative ==
    tickInfo.decode = "ran" => CumulativeAttempts(tickInfo.phase) \subseteq tickInfo.attempts

\* C5: an OCR attempt that completes while the session is stopped appends no
\* row and locks nothing.
C5_StaleOcrResultDiscarded ==
    [][(Len(ocrChains') < Len(ocrChains) /\ ~scanState.active)
          => (rows' = rows /\ serialLocked' = serialLocked)]_vars

\* C6: at most one OCR attempt of the scan loop is in flight, and while one
\* is, the busy flag that keeps a tick from starting another is set.
C6_OneOcrInFlight ==
    /\ Len(ocrChains) <= 1
    /\ Len(ocrChains) = 1 => scanState.ocrBusy

\* A phase-4 decode tick found the previous attempt in flight, with the
\* throttle open, and started nothing.
C6_Witness ==
    /\ Len(ocrChains) = 1
    /\ tickInfo.decode = "ran"
    /\ tickInfo.phase = 4
    /\ tickInfo.attempts = {}
    /\ now - scanState.lastOcrTime > OcrThrottleMs

\* C7: two OCR attempts of the scan loop start more than 1800 ms apart.
C7_OcrThrottle ==
    (tickInfo.decode = "ran" /\ "ocr" \in tickInfo.attempts /\ tickInfo.prevOcrStart # 0)
        => lastOcrStart - tickInfo.prevOcrStart > 1800

\* The last tick started the second OCR attempt.
C7_Witness ==
    /\ tickInfo.decode = "ran"
    /\ "ocr" \in tickInfo.attempts
    /\ tickInfo.prevOcrStart # 0

Elapsed == now - scanState.phaseStartTime

\* C8 as stated: the lower end of every phase's range belongs to the phase.
C8_PhaseOfElapsedInclusive ==
    tickInfo.decode = "ran" =>
        /\ Elapsed < 2000 => tickInfo.phase = 0
        /\ (2000 <= Elapsed /\ Elapsed < 5000) => tickInfo.phase = 1
        /\ (5000 <= Elapsed /\ Elapsed < 8000) => tickInfo.phase = 2
        /\ (8000 <= Elapsed /\ Elapsed < 12000) => tickInfo.phase = 3
        /\ 12000 <= Elapsed => tickInfo.phase = 4
        /\ "ocr" \in tickInfo.attempts => tickInfo.phase = 4

\* C8 amended: the upper end of every phase's range belongs to the phase
\* (phase 4 needs more than 12 s), and OCR is started only in phase 4.
C8_PhaseOfElapsed ==
    tickInfo.decode = "ran" =>
        /\ Elapsed <= 2000 => tickInfo.phase = 0
        /\ (2000 < Elapsed /\ Elapsed <= 5000) => tickInfo.phase = 1
        /\ (5000 < Elapsed /\ Elapsed <= 8000) => tickInfo.phase = 2
        /\ (8000 < Elapsed /\ Elapsed <= 12000) => tickInfo.phase = 3
        /\ 12000 < Elapsed => tickInfo.phase = 4
        /\ "ocr" \in tickInfo.attempts => tickInfo.phase = 4

\* A decode tick exactly 12 s after the start computed phase 3.
C8_Witness ==
    /\ tickInfo.decode = "ran"
    /\ Elapsed = 12000
    /\ tickInfo.phase = 3

\* C9: within a session and while nothing is committed, the computed phase
\* never decreases and stays within 0..4.
C9_PhaseMonotone ==
    tickInfo.decode = "ran" =>
        /\ tickInfo.phase \in 0..4
        /\ tickInfo.prevPhase # NoPhase => tickInfo.prevPhase <= tickInfo.phase

\* Two successive decode ticks of a session computed phases 1 and then 3.
C9_Witness ==
    /\ tickInfo.decode = "ran"
    /\ tickInfo.prevPhase = 1
    /\ tickInfo.phase = 3

\* The mean absolute red difference of two patches exceeds thr, or one of
\* them is missing.
PatchMoved(prev, cur, thr) ==
    \/ prev = Null
    \/ cur = Null
    \/ LET px == {k \in 1..Len(cur) : k % 4 = 1}
           RECURSIVE Sum(_)
           Sum(S) == IF S = {} THEN 0
                     ELSE LET k == CHOOSE x \in S : TRUE
                          IN  Abs(prev[k] - cur[k]) + Sum(S \ {k})
       IN  Sum(px) > thr * Cardinality(px)

\* C10: a scan tick whose patch moved by more than 25 sets the streak to 0 and
\* attempts no decode; any other scan tick adds exactly 1 to the streak.
C10_StabilityGate ==
    [][tickInfo' # NoTick =>
          IF PatchMoved(scanState.lastFrameData, scanState'.lastFrameData, 25)
          THEN /\ scanState'.consecutiveStableFrames = 0
               /\ tickInfo'.decode = "none"
          ELSE scanState'.consecutiveStableFrames
                  = scanState.consecutiveStableFrames + 1]_vars

\* A tick whose patch differed by exactly 25 counted as stable and led to a
\* decode attempt.
C10_Witness ==
    /\ tickInfo # NoTick
    /\ tickInfo.diff = 25
    /\ tickInfo.decode = "ran"
    /\ scanState.consecutiveStableFrames = 4

\* C11: a tick reaches attemptDecode (and so can start OCR) only when the
\* stable streak it leaves exceeds 3, that is after at least four successive
\* low-motion comparisons.
C11_DecodeOnlyWhenStable ==
    (tickInfo # NoTick /\ tickInfo.decode # "none")
        => scanState.consecutiveStableFrames > 3

\* The fourth stable tick in a row ran the decode attempt.
C11_Witness ==
    /\ tickInfo # NoTick
    /\ tickInfo.decode = "ran"
    /\ scanState.consecutiveStableFrames = 4
    /\ tickInfo.diff = 0

\* C12: startCamera (which stops first) leaves a fresh session record: streak
\* 0, no previous patch, OCR not busy, lastOcrTime and lastScanTime cleared,
\* phaseStartTime the start time.
C12_SessionRecordReset ==
    [][(~scanning /\ scanning')
          => /\ scanState'.consecutiveStableFrames = 0
             /\ scanState'.lastFrameData = Null
             /\ ~scanState'.ocrBusy
             /\ scanState'.lastOcrTime = 0
             /\ scanState'.lastScanTime = 0
             /\ scanState'.phaseStartTime = now']_vars

\* The first pass of outs whose outcome is a text of at least 6 characters
\* after trimming (0: none).
FirstGoodPass(outs) ==
    LET good == {k \in 1..Len(outs) :
                   ~outs[k].threw /\ Len(normalizeText(outs[k].text)) >= 6}
    IN  IF good = {} THEN 0 ELSE CHOOSE k \in good : \A j \in good : k <= j

\* C13: tryDecodePasses tries Version A, Version B, Fallback A, Fallback B,
\* Fallback C in this order, returns the text and name of the first pass that
\* decodes an acceptable value, and calls the decoder on no later pass.
C13_FirstPassWins ==
    LET names == << "Version A (1D optimized)", "Version B (OCR optimized)",
                    "Fallback A (strong contrast)", "Fallback B (edge emphasis)",
                    "Fallback C (threshold binarization)" >>
        first == FirstGoodPass(img.outs)
    IN  /\ img.pc = "pass" => (first = 0 /\ Len(img.outs) < 5)
        /\ img.pc = "done" =>
              IF first = 0
              THEN ~img.ok /\ Len(img.outs) = 5
              ELSE /\ img.ok
                   /\ Len(img.outs) = first
                   /\ img.text = normalizeText(img.outs[first].text)
                   /\ img.pass = names[first]

\* The first pass threw, the second read a short text, the third succeeded.
C13_Witness ==
    /\ img.pc = "done"
    /\ img.ok
    /\ Len(img.outs) = 3
    /\ img.outs[1].threw
    /\ ~img.outs[2].threw
    /\ img.pass = "Fallback A (strong contrast)"

\* The outcome recorded for engine in calls ("uncalled": it was not called).
OutcomeOf(calls, engine) ==
    IF \E k \in 1..Len(calls) : calls[k][1] = engine
    THEN LET k == CHOOSE k \in 1..Len(calls) : calls[k][1] = engine IN calls[k][2]
    ELSE "uncalled"

\* C14: no decoder or OCR call that throws or finds nothing ends the work
\* early: tryDecodePasses tries all five passes and returns ok = false,
\* detectBarcodeBBoxFromCanvas tries Quagga after ZXing and falls back to the
\* centered box, tryOcrSerialFromRoi tries the inverted crop after the
\* binarized one and returns success = false when neither yields a serial.
C14_FailuresContained ==
    /\ (img.pc = "done" /\ FirstGoodPass(img.outs) = 0)
          => (~img.ok /\ Len(img.outs) = 5)
    /\ upl.pc \in {"worker", "recognize1", "recognize2", "done"}
          => /\ OutcomeOf(upl.calls, "zxing") # "uncalled"
             /\ OutcomeOf(upl.calls, "zxing") # "box"
                   => OutcomeOf(upl.calls, "quagga") # "uncalled"
             /\ (OutcomeOf(upl.calls, "zxing") # "box"
                   /\ OutcomeOf(upl.calls, "quagga") # "box")
                   => upl.bbox = "fallback"
    /\ upl.pc = "done"
          => /\ OutcomeOf(upl.calls, "recognize1") \in {"throws", "miss"}
                   => OutcomeOf(upl.calls, "recognize2") # "uncalled"
             /\ (OutcomeOf(upl.calls, "recognize1") # "hit"
                   /\ OutcomeOf(upl.calls, "recognize2") # "hit")
                   => (~upl.success /\ upl.serial = Null)

\* C15: once a start has failed to acquire the camera the session is
\* inactive: whenever the UI is not scanning and no start is in flight,
\* scanState.active is false, and no scan tick runs while not scanning.
C15_FailedStartEndsInactive ==
    /\ (~scanning /\ starts = <<>>) => ~scanState.active
    /\ tickInfo # NoTick => scanning

\* Nothing was committed since the click on Iniciar that startLog begins with.
NothingReadSinceStart ==
    \A k \in 1..Len(startLog) : startLog[k].count = startLog[1].count

\* The restarts the watchdog made since the click on Iniciar.
WatchdogRestarts == SelectSeq(startLog, LAMBDA e : e.by = "watchdog")

\* C16: in deep mode, as long as no new row is committed after the click on
\* Iniciar, the restarts made by the retry watchdog carry the attempts 2, 3, 4
\* in that order.
C16_EscalationInOrder ==
    (startLog # <<>> /\ startLog[1].mode = "deep" /\ NothingReadSinceStart)
        => \A k \in 1..Len(WatchdogRestarts) : WatchdogRestarts[k].attempt = k + 1

\* C17: for one click on Iniciar in deep mode during which nothing is read,
\* no start of the camera follows the start with attempt 4, whether the
\* watchdog or the start-failure path made it.
C17_RetriesBoundedByFour ==
    (startLog # <<>> /\ startLog[1].mode = "deep" /\ NothingReadSinceStart)
        => \A k \in 1..(Len(startLog) - 1) : startLog[k].attempt # 4

\* C18: while the last click on Iniciar was made with scanMode = fast, the
\* camera is started by nothing but that click.
C18_FastNeverRestarts ==
    (startLog # <<>> /\ startLog[1].mode = "fast") => Len(startLog) = 1

\* The value a step offered to the log, on any of the three paths (Null: none).
OfferedValue(event, image) ==
    IF event[1] \in {"detect", "commitManual"} THEN normalizeText(event[2])
    ELSE IF event[1] = "imagePass" /\ ~image.outs[Len(image.outs)].threw
         THEN normalizeText(image.outs[Len(image.outs)].text)
    ELSE Null

\* C19: no step leaves in the log a row whose trimmed value is shorter than 6
\* characters, and a step that offers such a value (live scan, uploaded image
\* or manual entry) leaves the log unchanged.
C19_MinimumLength ==
    [][/\ \A k \in 1..Len(rows') : Len(normalizeText(rows'[k].barcode)) >= 6
       /\ LET v == OfferedValue(lastEvent', img') IN
          (v # Null /\ Len(v) < 6) => rows' = rows]_vars

\* A 5-character manual entry was just refused, an upload ended after a pass
\* read 5 characters, and the log holds a row.
C19_Witness ==
    /\ lastEvent = <<"commitManual", AB123>>
    /\ img.pc = "done"
    /\ ~img.ok
    /\ \E k \in 1..Len(img.outs) : img.outs[k] = Read(AB123)
    /\ rows # <<>>

\* C20: on no path (live scan, uploaded image, manual entry) does a step
\* append a row whose value equals the most recently committed value while
\* that row is no older than the cooldown window.
C20_EveryRowDeduplicated ==
    [][(rows # <<>> /\ Len(rows') = Len(rows) + 1)
          => LET new  == rows'[Len(rows')]
                 last == rows[Len(rows)]
             IN  ~(/\ normalizeText(new.barcode) = normalizeText(last.barcode)
                   /\ new.ts - last.ts <= cooldownMs)]_vars

\* C21: every step other than clearAll keeps the rows of the log, in place,
\* as a prefix of the new log, and adds at most one row, at the end.
C21_AppendOnly ==
    [][\/ rows' = rows
       \/ lastEvent'[1] = "clearAll" /\ rows' = <<>>
       \/ /\ Len(rows') = Len(rows) + 1
          /\ SubSeq(rows', 1, Len(rows)) = rows]_vars

\* The scanner has just committed a third row behind a scanned and a manual one.
C21_Witness ==
    /\ Len(rows) = 3
    /\ rows[1].format = "CODE_128"
    /\ rows[2].format = "MANUAL"
    /\ rows[1].barcode # rows[3].barcode
    /\ lastEvent[1] = "detect"
    /\ rows[3].barcode = normalizeText(lastEvent[2])
    /\ rows[3].format = "CODE_128"

\* The stored value holds no array of rows.
NoStoredRows ==
    IF storage.raw.kind = "missing" THEN TRUE ELSE storage.raw.doc.t # "array"

C23_SingleShotOutcome ==
    [][(img' # img /\ img'.pc \in {"done", "failed"})
          => \/ /\ img'.ok
                /\ FirstGoodPass(img'.outs) = Len(img'.outs)
                /\ Len(rows') = Len(rows) + 1
                /\ SubSeq(rows', 1, Len(rows)) = rows
                /\ rows'[Len(rows')].barcode
                      = normalizeText(img'.outs[Len(img'.outs)].text)
             \/ /\ ~img'.ok
                /\ FirstGoodPass(img'.outs) = 0
                /\ Len(img'.outs) = 5
                /\ img'.error = "No pude detectar barcode tras todas las pasadas de preprocesado."
                /\ rows' = rows]_vars

\* The sum of the 2r+1 samples of line around i, indices clamped to the line.
WindowSum(line, n, radius, i) ==
    SumOver([k \in (0 - radius)..radius |-> line[clamp(i + k, 0, n - 1) + 1]],
            0 - radius, radius)

\* C30: for radius >= 1 every sample of the horizontal pass, times 2r+1, is
\* the sum of the 2r+1 samples of its row at the columns clamp(x-r..x+r), and
\* every sample of the result, times 2r+1, is the same sum over its column of
\* the horizontal pass; for radius <= 0 the result is a copy of the input.
C30_BoxBlurIsMeanFilter ==
    pix.op = "boxBlur" =>
        LET src == pix.src
            tmp == pix.tmp
            out == pix.out
            r   == pix.radius
            win == 2 * r + 1
        IN  IF r <= 0 THEN out = src
            ELSE /\ tmp.den = src.den * win
                 /\ out.den = tmp.den * win
                 /\ Len(out.data) = Len(src.data)
                 /\ \A x \in 0..(src.w - 1), y \in 0..(src.h - 1) :
                       /\ At(tmp.data, src.w, x, y)
                             = WindowSum([i \in 1..src.w |-> At(src.data, src.w, i - 1, y)],
                                         src.w, r, x)
                       /\ At(out.data, src.w, x, y)
                             = WindowSum([j \in 1..src.h |-> At(tmp.data, src.w, x, j - 1)],
                                         src.h, r, y)

\* A 3 by 2 image with a white and a black corner was blurred with radius 2,
\* wider than the image.
C30_Witness ==
    /\ pix.op = "boxBlur"
    /\ pix.radius = 2
    /\ pix.src.w = 3
    /\ pix.src.h = 2
    /\ pix.src.data[1] = 255
    /\ pix.src.data[6] = 0
    /\ pix.out.data[1] > pix.out.data[6]

\* The intensities that occur in a buffer of whole samples.
Intensities(buf) == {buf.data[p] : p \in 1..Len(buf.data)}

\* C24: on a buffer whose samples take exactly two intensities lo < hi, otsu
\* returns a threshold t with lo < t < hi.
C24_OtsuStrictlyBetween ==
    (pix.op = "otsu" /\ Cardinality(Intensities(pix.src)) = 2)
        => \E lo, hi \in Intensities(pix.src) :
              /\ lo < hi
              /\ lo < pix.out
              /\ pix.out < hi

\* C25: every buffer returned by boxBlur, median3x3, unsharp, sobelX, stretch,
\* histogramEqualize or directionalSharpenVertical on samples within 0..255
\* has all its samples within 0..255 and the length of its input.
C25_GrayscaleDomain ==
    IF pix.op \in {"none", "gray"} THEN TRUE
    ELSE /\ Len(pix.out.data) = Len(pix.src.data)
         /\ \A p \in 1..Len(pix.out.data) :
               /\ 0 <= pix.out.data[p]
               /\ pix.out.data[p] <= 255 * pix.out.den

\* C26: the crop rectangle of autoCropLabel lies within the source image
\* (0 <= sx, 0 <= sy, sx + sw <= width, sy + sh <= height) and the box found
\* by the inward walk is non-empty (x0 <= x1, y0 <= y1).
C26_CropWithinSource ==
    IF pix.op # "autoCropLabel" THEN TRUE
    ELSE /\ 0 <= pix.out.sx
         /\ 0 <= pix.out.sy
         /\ pix.out.sx + pix.out.sw <= pix.width
         /\ pix.out.sy + pix.out.sh <= pix.height
         /\ pix.out.walk.x0 <= pix.out.walk.x1
         /\ pix.out.walk.y0 <= pix.out.walk.y1

\* The upload has a region for the OCR: detectBarcodeBBoxFromCanvas returned.
RegionChosen == upl.pc \in {"worker", "recognize1", "recognize2", "done"}

\* C28: detectBarcodeBBoxFromCanvas consults ZXing first and returns its box
\* when it reports result points; only otherwise it consults Quagga and
\* returns its box when it locates one; only otherwise it returns the
\* centered fallback box, 70% of the width by 20% of the height; it never
\* returns null.
C28_RegionPriorityChain ==
    IF upl.pc \in {"idle", "zxing"} THEN TRUE
    ELSE LET zxing  == OutcomeOf(upl.calls, "zxing")
             quagga == OutcomeOf(upl.calls, "quagga")
         IN  /\ upl.calls[1][1] = "zxing"
             /\ quagga # "uncalled" => zxing \in {"throws", "nothing"}
             /\ IF ~RegionChosen THEN TRUE
                ELSE /\ upl.rect.found
                     /\ zxing = "box"
                           => /\ upl.bbox = "zxing"
                              /\ upl.rect = getBBoxFromZXingResult(LocatedPoints)
                              /\ quagga = "uncalled"
                     /\ zxing # "box" => quagga # "uncalled"
                     /\ (zxing # "box" /\ quagga = "box")
                           => /\ upl.bbox = "quagga"
                              /\ upl.rect = QuaggaBox(LocatedPoints)
                     /\ (zxing # "box" /\ quagga # "box")
                           => /\ upl.bbox = "fallback"
                              /\ 100 * upl.rect.width = 70 * (100 * upl.canvas[1])
                              /\ 100 * upl.rect.height = 20 * (100 * upl.canvas[2])
                              /\ 2 * upl.rect.x + upl.rect.width = 100 * upl.canvas[1]

\* The fallback box was returned after both locators failed.
C28_Witness ==
    /\ RegionChosen
    /\ upl.bbox = "fallback"
    /\ OutcomeOf(upl.calls, "zxing") = "throws"
    /\ OutcomeOf(upl.calls, "quagga") = "nothing"

\* The places in the record of calls where an engine was called.
CallsOf(calls, engine) == {k \in 1..Len(calls) : calls[k][1] = engine}

\* C29: one OCR attempt makes at most two recognitions in a fixed order, the
\* first on the binarized crop; the second, on the inverted crop, is made
\* only when the first yielded no matching serial; the attempt reports
\* success exactly when one of them yields a value accepted by the serial
\* pattern.
C29_TwoRecognitionsInOrder ==
    IF upl.pc \in {"idle", "zxing"} THEN TRUE
    ELSE /\ Cardinality(CallsOf(upl.calls, "recognize1")) <= 1
         /\ Cardinality(CallsOf(upl.calls, "recognize2")) <= 1
         /\ \A k \in CallsOf(upl.calls, "recognize2") :
               /\ k > 1
               /\ upl.calls[k - 1] = <<"recognize1", "miss">>
         /\ upl.pc = "recognize2" => upl.calls[Len(upl.calls)] = <<"recognize1", "miss">>
         /\ IF upl.pc # "done" THEN TRUE
            ELSE /\ upl.success
                     <=> \/ OutcomeOf(upl.calls, "recognize1") = "hit"
                         \/ OutcomeOf(upl.calls, "recognize2") = "hit"
                 /\ IF upl.success
                    THEN extractSerialFromText(upl.serial) = upl.serial
                    ELSE upl.serial = Null

\* The inverted crop gave the serial after the binarized crop gave none.
C29_Witness ==
    /\ upl.pc = "done"
    /\ upl.success
    /\ OutcomeOf(upl.calls, "recognize1") = "miss"
    /\ OutcomeOf(upl.calls, "recognize2") = "hit"

\* C27: deglare never increases brightness: each of R, G and B of every pixel
\* is afterwards at most its value before, alpha is unchanged, and every
\* pixel that is not both of luma > 228 and of saturation < 35 is unchanged.
C27_DeglareNeverBrightens ==
    IF pix.op # "deglare" THEN TRUE
    ELSE /\ Len(pix.out.data) = Len(pix.src.data)
         /\ \A p \in 1..Len(pix.src.data) :
               /\ \A c \in 1..3 : pix.out.data[p][c] <= pix.src.data[p][c]
               /\ pix.out.data[p][4] = pix.src.data[p][4]
               /\ ~(Luma1000(pix.src.data[p]) > 228000 /\ Saturation(pix.src.data[p]) < 35)
                     => pix.out.data[p] = pix.src.data[p]

\* A glare pixel was darkened next to pixels that are not glare.
C27_Witness ==
    /\ pix.op = "deglare"
    /\ \E p \in 1..Len(pix.src.data) :
          /\ IsGlare(pix.src.data[p])
          /\ \A c \in 1..3 : pix.out.data[p][c] < pix.src.data[p][c]
    /\ \E p \in 1..Len(pix.src.data) :
          /\ ~IsGlare(pix.src.data[p])
          /\ pix.src.data[p][4] # 255
    /\ \E p \in 1..Len(pix.src.data) : Saturation(pix.src.data[p]) = 35

\* C31: thresholding a buffer that holds at least two distinct intensities
\* with sample >= otsu(buffer) -> 255 else 0 gives an output that holds both
\* 0 and 255.
C31_BinarizeSeparates ==
    (pix.op = "binarize" /\ Cardinality(Intensities(pix.src)) >= 2)
        => {0, 255} \subseteq Intensities(pix.out)

\* C32: the serial log never holds the same serial twice: all rows have
\* pairwise distinct normalized serials.
C32_SerialsDistinct ==
    \A i, j \in 1..Len(rows) :
       i < j => normalizeText(rows[i].serial) # normalizeText(rows[j].serial)

\* C33: once the scan session has committed a serial (serialLocked set), no
\* later step of that session starts another OCR attempt or commits another
\* row, until the camera is restarted or the history is cleared (which unset
\* the lock).
C33_SerialLock ==
    [][(serialLocked /\ serialLocked')
          => (Len(ocrChains') <= Len(ocrChains) /\ rows' = rows)]_vars

\* C34: at most one scanLoop chain is pending or running at any time, over
\* any sequence of startCamera and stopCamera calls.
C34_OneScanLoop == Len(loops) <= 1

\* C35: after stopCamera (Detener) no camera start occurs until the user
\* presses Iniciar again; in particular the Deep Scan watchdog does not
\* restart the camera after a stop.
C35_StopIsFinal ==
    [][(halted /\ Len(cams') > Len(cams)) => ~halted']_vars

\* C36: no camera stream survives a stop: whenever the session is inactive
\* and no startCamera is still awaiting getUserMedia, no stream is held.
C36_NoStreamSurvivesStop ==
    (~scanState.active /\ \A i \in 1..Len(starts) : starts[i].pc # "gum")
        => scanState.stream = Null

\* C37: the OCR busy flag is always released: whenever ocrBusy is set, the
\* attempt that set it eventually sets it back to false, whether it finds a
\* serial, finds nothing or an engine fails.
C37_OcrBusyReleased == scanState.ocrBusy ~> ~scanState.ocrBusy

\* An attempt of the scan loop ended without a serial and released the flag.
C37_Witness ==
    /\ lastOcrStart # 0
    /\ ocrChains = <<>>
    /\ ~scanState.ocrBusy
    /\ rows = <<>>

\* C38: at most one OCR worker is ever created: however getOcrWorker calls of
\* the scan loop and of an upload interleave, Tesseract.createWorker is
\* invoked at most once and every caller that receives a worker receives the
\* same one.
C38_OneOcrWorker ==
    /\ Len(ocrWorker.promises) <= 1
    /\ \A i, j \in 1..Len(ocrWorker.calls) :
          (ocrWorker.calls[i].pc = "have" /\ ocrWorker.calls[j].pc = "have")
             => ocrWorker.calls[i].w = ocrWorker.calls[j].w

\* The scan loop and an upload both called before the worker was ready, and
\* a third call came after: all three hold a worker.
C38_Witness ==
    /\ Len(ocrWorker.calls) >= 3
    /\ ocrWorker.calls[1].by # ocrWorker.calls[2].by
    /\ ocrWorker.calls[1].p # 0
    /\ ocrWorker.calls[2].p # 0
    /\ ocrWorker.calls[3].p = 0
    /\ \A i \in 1..3 : ocrWorker.calls[i].pc = "have"

=============================================================================
